---- MODULE Spec2Model ----
(***************************************************************************)
(* Log streaming subsystem of astrbot_plugin_mc_manager:                   *)
(*   - LogClient  (src/log_client.py): reconnecting, heartbeat-supervised  *)
(*     client,                                                             *)
(*   - LogServer  (src/log_server.py): registry of connections, broadcast, *)
(*     heartbeat supervisor and log file tailer.                           *)
(* Every coroutine is cut at its suspension points (await); one action is  *)
(* the code that runs between two suspension points.                       *)
(*                                                                         *)
(* Time is counted in seconds and kept relative to the present: a pending  *)
(* timer (asyncio.sleep, wait_for) is the number of seconds left until it  *)
(* fires, and a stored time.time() value x is kept as its age, that is     *)
(* time.time() - x, which is the only way the code reads it.  Ages stop    *)
(* growing at a cap above every value they are compared with.              *)
(***************************************************************************)
EXTENDS Integers, Sequences, FiniteSets, TLC

VARIABLES client,     \* the LogClient object and its coroutines
          server,     \* the LogServer object: running, clients (the registry)
          conn,       \* per accepted connection: transport and handler
          bc,         \* the _broadcast call of the tail loop
          hr,         \* the _heartbeat_task coroutine
          disk,       \* the watched log file
          tailer      \* the _tail_log_file coroutine

vars == <<client, server, conn, bc, hr, disk, tailer>>
clientVars == <<client>>
serverVars == <<server, conn, bc, hr>>
tailerVars == <<disk, tailer>>

(***************************************************************************)
(* Bounds of the model                                                     *)
(***************************************************************************)
RetryInterval == 3      \* the non-zero reconnect_interval that is explored
MaxAttemptsCfg == 2     \* max_reconnect_attempts ranges over 0..MaxAttemptsCfg

(***************************************************************************)
(* Program constants of the client                                         *)
(***************************************************************************)
HEARTBEAT_TIMEOUT == 30
HB_CHECK_PERIOD == 5
READ_TIMEOUT == 1
CONNECT_TIMEOUT == 10

Min(a, b) == IF a < b THEN a ELSE b

\* cap of the ages compared with HEARTBEAT_TIMEOUT
AgeCap == HEARTBEAT_TIMEOUT + HB_CHECK_PERIOD + 2
\* Counters stop growing at CountCap, which is above every value they are
\* compared with (max_reconnect_attempts <= MaxAttemptsCfg): n + 1, capped
CountCap == MaxAttemptsCfg + 2
Count(n) == Min(n + 1, CountCap)

(***************************************************************************)
(*                              LogClient                                  *)
(*                                                                         *)
(* client is the LogClient object together with the position of the three  *)
(* coroutines that work on it:                                             *)
(*   pc   - main.initialize / start_listening                              *)
(*   hb   - the _check_heartbeat task of the current session               *)
(*   term - the disconnect() call made by main.terminate                   *)
(*   probe - a test_connection call (command test_log); probe_writer is    *)
(*           the writer it holds in a local variable                       *)
(* sinks tells which callbacks were given to the client and what they do:  *)
(* "ok", "raises", "absent" (none was set), or "chatonly" (the two of the  *)
(* chat, as main.py sets them); line is the log line handed to             *)
(* _process_log_line when that function is run on its own.                 *)
(* Fields starting with h_ are history: they record what happened and are  *)
(* never read by the code.  h_rec, h_pongs and h_calls describe the latest *)
(* event: the record last read, the pongs written for it, and the          *)
(* callbacks invoked by the step that last could invoke one; they are      *)
(* cleared when time passes.  h_disc follows the disconnect callback of a  *)
(* client that has one: "owed" once the client is no longer Connected,     *)
(* "paid" when the callback was invoked, "extra" when it was invoked       *)
(* again, "none" while Connected.                                          *)
(***************************************************************************)
ClientNew(R, M) ==
    [ reconnect_interval |-> R, max_reconnect_attempts |-> M,
      reader |-> FALSE, writer |-> "none", running |-> FALSE,
      should_reconnect |-> TRUE, reconnect_count |-> 0,
      heartbeat_age |-> AgeCap,
      pc |-> "idle", timer |-> 0, hb |-> "none", hbTimer |-> 0, term |-> "idle",
      h_attempts |-> 0, h_sinceAttempt |-> -1, h_gapOK |-> TRUE,
      h_anySuccess |-> FALSE, h_sincePing |-> 0,
      h_retries |-> 0, h_retriesSinceUp |-> 0,
      h_rec |-> "none", h_pongs |-> 0,
      sinks |-> "chatonly", h_calls |-> <<>>, line |-> "",
      h_disc |-> "none", probe |-> "idle", probe_writer |-> "none" ]

\* _should_retry_reconnect, with <= where the code has <
ShouldRetryOffByOne(c) ==
    IF c.max_reconnect_attempts = 0 THEN TRUE
    ELSE c.reconnect_count <= c.max_reconnect_attempts

\* _should_retry_reconnect without the case of max_reconnect_attempts = 0
ShouldRetryZeroIsNone(c) == c.reconnect_count < c.max_reconnect_attempts

\* _should_retry_reconnect
ShouldRetry(c) ==
    IF c.max_reconnect_attempts = 0 THEN TRUE
    ELSE c.reconnect_count < c.max_reconnect_attempts

\* connect(): the await on open_connection starts (one connection attempt)
BeginConnect(c, where, isRetry) ==
    [c EXCEPT !.pc = where, !.timer = CONNECT_TIMEOUT,
              !.h_attempts = Count(@),
              !.h_sinceAttempt = 0,
              !.h_gapOK = @ /\ (c.h_sinceAttempt = -1
                                \/ c.h_sinceAttempt >= c.reconnect_interval),
              !.h_retries = IF isRetry THEN Count(@) ELSE @,
              !.h_retriesSinceUp = IF isRetry THEN Count(@) ELSE @]

\* the callbacks that were given to the client
HasSink(c, hook) ==
    \/ c.sinks \in {"ok", "raises"}
    \/ c.sinks = "chatonly" /\ hook \in {"fake_event_handler", "on_chat_message"}

\* if self.hook: try: the hook is called; except Exception: logged
Call(hook, args) == [hook |-> hook, args |-> args]
Invoke(c, hook, args) ==
    IF HasSink(c, hook) THEN [c EXCEPT !.h_calls = Append(@, Call(hook, args))]
    ELSE c

\* running or the writer is about to change: is Connected left?
Leave(c) ==
    IF c.running /\ c.writer = "open" /\ HasSink(c, "on_disconnect")
    THEN [c EXCEPT !.h_disc = "owed"] ELSE c

\* if self.on_disconnect: try: await self.on_disconnect()
InvokeDisconnect(c) ==
    IF HasSink(c, "on_disconnect")
    THEN [Invoke(c, "on_disconnect", <<>>)
            EXCEPT !.h_disc = IF @ = "owed" THEN "paid" ELSE "extra"]
    ELSE c

\* connect() that keeps the retry counter
ConnectOKNoReset(c) ==
    [c EXCEPT !.reader = TRUE, !.writer = "open", !.running = TRUE,
              !.timer = 0, !.h_anySuccess = TRUE, !.h_sincePing = 0,
              !.h_retriesSinceUp = 0, !.h_calls = <<>>,
              !.h_disc = "none"]

\* connect() that calls the reconnect callback on every success
ConnectOKAlwaysHook(c) ==
    Invoke([c EXCEPT !.reader = TRUE, !.writer = "open", !.running = TRUE,
                     !.reconnect_count = 0, !.timer = 0,
                     !.h_anySuccess = TRUE, !.h_sincePing = 0,
                     !.h_retriesSinceUp = 0, !.h_calls = <<>>,
              !.h_disc = "none"],
           "on_reconnect", <<>>)

\* connect(): open_connection returned a transport
ConnectOK(c) ==
    LET c1 == [c EXCEPT !.reader = TRUE, !.writer = "open", !.running = TRUE,
                        !.reconnect_count = IF @ > 0 THEN 0 ELSE @,
                        !.timer = 0,
                        !.h_anySuccess = TRUE, !.h_sincePing = 0,
                        !.h_retriesSinceUp = 0, !.h_calls = <<>>,
              !.h_disc = "none"]
    IN  IF c.reconnect_count > 0 THEN Invoke(c1, "on_reconnect", <<>>) ELSE c1

\* the retry decision that does not look at the interval
DecideAnyInterval(c) ==
    IF c.should_reconnect /\ ShouldRetry(c)
    THEN [c EXCEPT !.reconnect_count = Count(@), !.pc = "retrywait",
                   !.timer = c.reconnect_interval]
    ELSE [c EXCEPT !.pc = "done", !.timer = 0]

\* start_listening: the retry decision after the session ended
Decide(c) ==
    IF c.should_reconnect /\ c.reconnect_interval > 0 /\ ShouldRetry(c)
    THEN [c EXCEPT !.reconnect_count = Count(@), !.pc = "retrywait",
                   !.timer = c.reconnect_interval]
    ELSE [c EXCEPT !.pc = "done", !.timer = 0]

\* the finally block with a disconnect callback that is not guarded
AfterDisconnectUnguarded(c) ==
    LET c1 == InvokeDisconnect([c EXCEPT !.reader = FALSE, !.writer = "none"])
    IN  IF c.sinks = "raises" THEN [c1 EXCEPT !.pc = "crashed", !.timer = 0]
        ELSE Decide(c1)

\* disconnect(): after wait_closed; then the rest of the finally block
AfterDisconnect(c) ==
    Decide(InvokeDisconnect([c EXCEPT !.reader = FALSE, !.writer = "none"]))

\* start_listening: the finally block, up to the await in disconnect()
Finally(c) ==
    LET c1 == [Leave(c) EXCEPT
                  !.hb = IF @ \in {"new", "sleep"} THEN "cancelled" ELSE @,
                  !.hbTimer = 0, !.running = FALSE, !.timer = 0]
    IN  IF c1.writer # "none"
        THEN [c1 EXCEPT !.writer = "closed", !.pc = "closing"]
        ELSE AfterDisconnect(c1)

\* start_listening: the timed readline of the read loop
AwaitRead(c) ==
    IF ~c.reader THEN Finally(c)
    ELSE [c EXCEPT !.pc = "reading", !.timer = READ_TIMEOUT]

\* start_listening: while self.running
LoopCheck(c) == IF c.running THEN AwaitRead(c) ELSE Finally(c)

\* start_listening: a session starts (heartbeat task, read loop)
SessionStart(c) == LoopCheck([c EXCEPT !.hb = "new", !.hbTimer = 0])

\* start_listening: while self.should_reconnect / if not self.reader
LoopHead(c, isRetry) ==
    IF ~c.should_reconnect THEN [c EXCEPT !.pc = "done", !.timer = 0]
    ELSE IF ~c.reader THEN BeginConnect(c, "connecting", isRetry)
    ELSE SessionStart(c)

\* connect() returned False, with the retry budget never consulted
ConnectFailedNoBudget(c) ==
    IF c.reconnect_interval > 0
    THEN [c EXCEPT !.reconnect_count = Count(@), !.pc = "retrywait",
                   !.timer = c.reconnect_interval]
    ELSE [c EXCEPT !.pc = "done", !.timer = 0]

\* start_listening: connect() returned False
ConnectFailed(c) ==
    IF c.reconnect_interval > 0 /\ ShouldRetry(c)
    THEN [c EXCEPT !.reconnect_count = Count(@), !.pc = "retrywait",
                   !.timer = c.reconnect_interval]
    ELSE [c EXCEPT !.pc = "done", !.timer = 0]

Connected(c) == c.running /\ c.writer = "open"

----------------------------------------------------------------------------
\* main.initialize: await self.log_client.connect()
Initialize ==
    /\ client.pc = "idle"
    /\ client' = BeginConnect(client, "initconn", FALSE)
    /\ UNCHANGED <<serverVars, tailerVars>>

\* start_listening begins to run: as the task created by main.initialize,
\* or awaited directly on a fresh client
StartListening ==
    /\ client.pc \in {"idle", "created"}
    /\ client' = LoopHead([client EXCEPT !.should_reconnect = TRUE,
                                         !.reconnect_count = 0], FALSE)
    /\ UNCHANGED <<serverVars, tailerVars>>

\* the connection attempt ends: a transport, or an error / the 10 s timeout
ConnectDone ==
    /\ client.pc \in {"initconn", "connecting"}
    /\ \E ok \in BOOLEAN :
         client' =
           IF client.pc = "initconn"
           THEN IF ok THEN [ConnectOK(client) EXCEPT !.pc = "created"]
                      ELSE [client EXCEPT !.pc = "failed", !.timer = 0]
           ELSE IF ok THEN SessionStart(ConnectOK(client))
                      ELSE ConnectFailed(client)
    /\ UNCHANGED <<serverVars, tailerVars>>

\* asyncio.sleep(reconnect_interval) is over
SleepDone ==
    /\ client.pc = "retrywait"
    /\ client.timer = 0
    /\ client' = LoopHead(client, TRUE)
    /\ UNCHANGED <<serverVars, tailerVars>>

\* wait_for(readline, 1.0) timed out
ReadTimeout ==
    /\ client.pc = "reading"
    /\ client.timer = 0
    /\ client' = LoopCheck(client)
    /\ UNCHANGED <<serverVars, tailerVars>>

\* _send_pong up to its await: self.writer.write(pong) if there is a writer
SendPong(c) == IF c.writer # "none" THEN [c EXCEPT !.h_pongs = @ + 1] ELSE c

\* the records a client can be sent: a ping, a log message, bytes that are
\* not UTF-8, text that is not JSON, JSON that is not an object
BadKinds == {"badutf8", "badjson", "nonobject"}
RecordKinds == {"ping", "log"} \cup BadKinds
RecordClass(kind) == IF kind \in BadKinds THEN "bad" ELSE kind

\* readline returned a record of this kind: no pong was written and no
\* callback invoked for it yet
Received(c, kind) ==
    [c EXCEPT !.h_rec = RecordClass(kind), !.h_pongs = 0, !.h_calls = <<>>]

\* the read loop with an error in a record ending the session
ProcessMessageBadEnds(c, kind, suspend) ==
    CASE kind = "ping" ->
           LET c1 == SendPong([c EXCEPT !.heartbeat_age = 0, !.h_sincePing = 0])
           IN  IF c1.writer # "none" /\ suspend
               THEN [c1 EXCEPT !.pc = "draining", !.timer = 0]
               ELSE LoopCheck(c1)
      [] kind = "log" -> LoopCheck(c)
      [] OTHER -> Finally(c)

\* _process_message, with every record taken for a heartbeat
ProcessMessageAnyRecord(c, kind, suspend) ==
    LET c0 == [c EXCEPT !.heartbeat_age = 0,
                        !.h_sincePing = IF kind = "ping" THEN 0 ELSE @]
        c1 == IF kind = "ping" THEN SendPong(c0) ELSE c0
    IN  IF kind = "ping" /\ c1.writer # "none" /\ suspend
        THEN [c1 EXCEPT !.pc = "draining", !.timer = 0]
        ELSE LoopCheck(c1)

\* _process_message with a pong for whatever record came
ProcessMessagePongAlways(c, kind, suspend) ==
    LET c1 == SendPong(IF kind = "ping"
                       THEN [c EXCEPT !.heartbeat_age = 0, !.h_sincePing = 0]
                       ELSE c)
    IN  IF c1.writer # "none" /\ suspend
        THEN [c1 EXCEPT !.pc = "draining", !.timer = 0]
        ELSE LoopCheck(c1)

\* the read loop's handling of one record (decode, strip, _process_message,
\* except Exception) ; kind is the record's content
ProcessMessage(c, kind, suspend) ==
    CASE kind = "ping" ->
           LET c1 == SendPong([c EXCEPT !.heartbeat_age = 0, !.h_sincePing = 0])
           IN  IF c1.writer # "none" /\ suspend
               THEN [c1 EXCEPT !.pc = "draining", !.timer = 0]
               ELSE LoopCheck(c1)
         \* _process_log_line changes nothing of the client
      [] kind = "log" -> LoopCheck(c)
         \* except json.JSONDecodeError in _process_message
      [] kind = "badjson" -> LoopCheck(c)
         \* UnicodeDecodeError of decode, AttributeError of msg.get: caught
         \* by except Exception inside the read loop
      [] OTHER -> LoopCheck(c)

\* readline returned a record
ReadRecord ==
    /\ client.pc = "reading"
    /\ client.writer = "open"
    /\ \E kind \in RecordKinds, suspend \in BOOLEAN :
         client' = ProcessMessage(Received(client, kind), kind, suspend)
    /\ UNCHANGED <<serverVars, tailerVars>>

\* _send_pong: drain returned or raised
DrainDone ==
    /\ client.pc = "draining"
    /\ client' = LoopCheck(client)
    /\ UNCHANGED <<serverVars, tailerVars>>

\* readline returned b'' or raised
ReadEnd ==
    /\ client.pc = "reading"
    /\ client' = Finally(client)
    /\ UNCHANGED <<serverVars, tailerVars>>

\* disconnect(stop_reconnect=False) of the finally block: wait_closed returned
CloseDone ==
    /\ client.pc = "closing"
    /\ client' = AfterDisconnect(client)
    /\ UNCHANGED <<serverVars, tailerVars>>

\* _check_heartbeat starts to run
HbStart ==
    /\ client.hb = "new"
    /\ client' = IF client.running
                 THEN [client EXCEPT !.heartbeat_age = 0,
                                     !.hb = "sleep", !.hbTimer = HB_CHECK_PERIOD]
                 ELSE [client EXCEPT !.heartbeat_age = 0, !.hb = "done"]
    /\ UNCHANGED <<serverVars, tailerVars>>

\* _check_heartbeat: what it does when its sleep(5) is over
HeartbeatCheck(c) ==
    IF c.heartbeat_age > HEARTBEAT_TIMEOUT
    THEN [Leave(c) EXCEPT !.running = FALSE, !.hb = "done", !.hbTimer = 0]
    ELSE IF c.running
         THEN [c EXCEPT !.hbTimer = HB_CHECK_PERIOD]
         ELSE [c EXCEPT !.hb = "done", !.hbTimer = 0]

HbCheck ==
    /\ client.hb = "sleep"
    /\ client.hbTimer = 0
    /\ client' = HeartbeatCheck(client)
    /\ UNCHANGED <<serverVars, tailerVars>>

\* disconnect(stop_reconnect=True), up to its await
DisconnectCall(c) ==
    LET c1 == [Leave(c) EXCEPT !.running = FALSE, !.should_reconnect = FALSE]
    IN  IF c1.writer # "none"
        THEN [c1 EXCEPT !.writer = "closed", !.term = "closing"]
        ELSE [c1 EXCEPT !.reader = FALSE, !.writer = "none", !.term = "done"]

\* main.terminate calls disconnect()
Disconnect ==
    /\ client.term = "idle"
    /\ client.pc # "idle"
    /\ client' = DisconnectCall(client)
    /\ UNCHANGED <<serverVars, tailerVars>>

\* disconnect() of main.terminate: wait_closed returned
TermCloseDone ==
    /\ client.term = "closing"
    /\ client' = [client EXCEPT !.reader = FALSE, !.writer = "none", !.term = "done"]
    /\ UNCHANGED <<serverVars, tailerVars>>

\* no timer of the client has run out and no coroutine is ready to run
ClientCanWait ==
    /\ client.pc \notin {"created", "closing"}
    /\ client.term # "closing"
    /\ client.hb # "new"
    /\ client.pc \in {"initconn", "connecting", "retrywait", "reading"} => client.timer > 0
    /\ client.hb = "sleep" => client.hbTimer > 0

\* one second passes; the record last read is not the latest event any more
ClientAged(c) ==
    [c EXCEPT !.h_rec = "none", !.h_pongs = 0, !.h_calls = <<>>,
              !.timer = IF @ > 0 THEN @ - 1 ELSE 0,
              !.hbTimer = IF @ > 0 THEN @ - 1 ELSE 0,
              !.heartbeat_age = Min(@ + 1, AgeCap),
              !.h_sincePing = Min(@ + 1, AgeCap),
              !.h_sinceAttempt = IF @ = -1 THEN -1 ELSE Min(@ + 1, RetryInterval)]

ClientTick ==
    /\ ClientCanWait
    /\ client' = ClientAged(client)
    /\ UNCHANGED <<serverVars, tailerVars>>

ClientInit ==
    \E R \in {0, RetryInterval}, M \in 0..MaxAttemptsCfg : client = ClientNew(R, M)

ClientNext ==
    \/ Initialize \/ StartListening \/ ConnectDone \/ SleepDone
    \/ ReadTimeout \/ ReadRecord \/ DrainDone \/ ReadEnd \/ CloseDone
    \/ HbStart \/ HbCheck \/ Disconnect \/ TermCloseDone \/ ClientTick


(***************************************************************************)
(*                              LogServer                                  *)
(*                                                                         *)
(* server.clients is the registry: a set of (reader, writer, last_active)  *)
(* tuples.  A tuple is [conn, la]: conn names the reader/writer pair, and  *)
(* la tells which last_active value it carries: "cur", the value in the    *)
(* client_info of the connection's handler, or "old", a value the handler  *)
(* has replaced since.  Two tuples of one connection are equal exactly     *)
(* when they carry the same value.  conn[c].info is the age of "cur".      *)
(*                                                                         *)
(* conn[c] is the transport of connection c and the position of its        *)
(* _handle_client coroutine:                                               *)
(*   st      - "absent" (not accepted yet), "open", "lost" (the transport  *)
(*             has seen the connection go: reads end, drain raises),       *)
(*             "closing" (writer.close() was called while the write buffer *)
(*             held data the peer does not take: the socket stays open and *)
(*             drain and wait_closed stay suspended until the buffer is    *)
(*             flushed or the connection goes), "closed" (writer.close()   *)
(*             was called and the socket is closed)                        *)
(*   h       - the handler: "none", "reading", "done"                      *)
(*   info    - age of last_active in the handler's client_info, kept      *)
(*             while that tuple is registered                              *)
(*                                                                         *)
(* bc and hr are the two loops over list(self.clients): _broadcast and     *)
(* the round of _heartbeat_task.  A coroutine whose pc is "run", "cleanup" *)
(* or "ret" is executing: nothing else runs until it reaches an await that *)
(* suspends ("drain", "closewait", "sleep").  A drain suspends when the    *)
(* peer does not read and the write buffer is full; it returns when the    *)
(* peer reads again, and raises when the connection goes.                  *)
(*                                                                         *)
(* Where the lines passed to _broadcast are numbered, bc.h_line is the     *)
(* number of the latest one (-1: they are not numbered) and bc.h_log[c] is *)
(* the sequence of the numbers of the lines the transport of c took.       *)
(***************************************************************************)
HEARTBEAT_INTERVAL == 10
CLIENT_TIMEOUT == 30

Conns == {"a", "b"}

\* the lines passed to _broadcast, where they are numbered
MaxLines == 2
NoEntry == [conn |-> "-", la |-> "-"]

\* the server's clock advances in steps of ServerStep seconds
ServerStep == HEARTBEAT_INTERVAL
ServerAgeCap == CLIENT_TIMEOUT + HEARTBEAT_INTERVAL + ServerStep

Entry(c, la) == [conn |-> c, la |-> la]
Registered(c) == Entry(c, "cur") \in server.clients

RoundIdle(pc) ==
    [ pc |-> pc, timer |-> 0, todo |-> {}, late |-> {}, cur |-> NoEntry,
      disconnected |-> {},
      h_snap |-> {}, h_got |-> [c \in Conns |-> 0], h_failed |-> {},
      h_line |-> -1, h_log |-> [c \in Conns |-> <<>>] ]

Busy(r) == r.pc \in {"run", "cleanup", "ret"}

\* no coroutine is executing: the event loop can run another callback.  A
\* tail loop that goes round without reaching an await keeps executing.
Quiet == ~Busy(bc) /\ ~Busy(hr) /\ tailer.pc # "spin"

\* a drain is suspended on c: the write buffer of c holds data that the
\* peer does not take
Clogged(c) ==
    \/ bc.pc = "drain" /\ bc.cur.conn = c
    \/ hr.pc = "drain" /\ hr.cur.conn = c

\* writer.close() was called on the transport of c
CloseCalled(c) == conn[c].st \in {"closing", "closed"}

\* what writer.write(data) followed by await writer.drain() does on c;
\* full: the peer is not reading and the buffer is over its high-water mark
WriteOutcome(c, full) ==
    CASE conn[c].st = "open" -> IF full THEN "blocked" ELSE "ok"
      [] conn[c].st = "closing" -> "blocked"
      [] OTHER -> "fail"

\* list(self.clients) is taken and the for loop over it begins
RoundStart(r, late) ==
    [r EXCEPT !.pc = IF server.clients = {} THEN "ret" ELSE "run",
              !.timer = 0,
              !.todo = server.clients, !.late = late,
              !.h_snap = {e.conn : e \in server.clients}]

\* the for loop goes on, or is over: then the removal loop, or the return
NextItem(r) ==
    [r EXCEPT !.pc = IF r.todo # {} THEN "run"
                     ELSE IF r.disconnected # {} THEN "cleanup" ELSE "ret",
              !.cur = NoEntry]

\* a failed write that ends the whole loop and gives up every tuple left
WriteFailedGiveUp(r, e) ==
    NextItem([r EXCEPT !.disconnected = @ \cup {e} \cup r.todo,
                       !.todo = {},
                       !.h_failed = @ \cup {e.conn}])

\* except Exception: disconnected.add((reader, writer, last_active))
WriteFailed(r, e) ==
    NextItem([r EXCEPT !.disconnected = @ \cup {e},
                       !.h_failed = @ \cup {e.conn}])

\* the transport of e took the message
Written(r, e) ==
    [r EXCEPT !.h_got[e.conn] = Min(@ + 1, 2),
              !.h_log[e.conn] = IF r.h_line < 1 THEN @ ELSE Append(@, r.h_line)]

\* one iteration of the for loop: write and drain for tuple e
WriteItem(r, e, full) ==
    LET r1 == [r EXCEPT !.todo = @ \ {e}]
    IN  CASE WriteOutcome(e.conn, full) = "ok" -> NextItem(Written(r1, e))
          [] WriteOutcome(e.conn, full) = "blocked" ->
                 [Written(r1, e) EXCEPT !.pc = "drain", !.cur = e]
          [] OTHER -> WriteFailed(r1, e)

\* writer.close() on the transport of c
Close(cs, c) ==
    [cs EXCEPT ![c].st = IF @ = "closing" \/ (@ = "open" /\ Clogged(c))
                         THEN "closing" ELSE "closed"]

\* the removal loop: self.clients.discard(client); client[1].close()
Remove(e) ==
    /\ server' = [server EXCEPT !.clients = @ \ {e}]
    /\ conn' = [Close(conn, e.conn) EXCEPT
                  ![e.conn].info = IF e.la = "cur" THEN 0 ELSE @]

\* the handler of c replaces its client_info: the tuples made from the
\* value it held carry an old value from now on
Retire(S, c) == {IF e.conn = c THEN Entry(c, "old") ELSE e : e \in S}
RetireRound(r, c) ==
    [r EXCEPT !.todo = Retire(@, c), !.late = Retire(@, c),
              !.disconnected = Retire(@, c),
              !.cur = IF @.conn = c THEN Entry(c, "old") ELSE @]

\* the pong branch without the discard of the tuple held so far
AfterPongKeepOld(clients, c) == Retire(clients, c) \cup {Entry(c, "cur")}

\* discard(client_info); client_info = (reader, writer, time.time()); add
AfterPong(clients, c) ==
    Retire(clients \ {Entry(c, "cur")}, c) \cup {Entry(c, "cur")}

\* the finally block without the discard of client_info
FinallyClientsKept(clients, c) == clients

\* _handle_client, the finally block: discard, writer.close(), wait_closed
FinallyClients(clients, c) == clients \ {Entry(c, "cur")}

\* the finally block without writer.close()
FinallyConnNoClose(cs, c) == [cs EXCEPT ![c].h = "done", ![c].info = 0]

\* the finally block: writer.close(); the handler is over
FinallyConn(cs, c) == [Close(cs, c) EXCEPT ![c].h = "done", ![c].info = 0]

----------------------------------------------------------------------------
\* _handle_client starts for a new connection
Accept(c) ==
    /\ Quiet
    /\ server.running
    /\ conn[c].st = "absent"
    /\ conn' = [conn EXCEPT ![c].st = "open", ![c].h = "reading", ![c].info = 0]
    /\ server' = [server EXCEPT !.clients = @ \cup {Entry(c, "cur")}]
    /\ UNCHANGED <<bc, hr, clientVars, tailerVars>>

\* _handle_client: what a record that was parsed does to the time of last
\* activity (kept as its age): a pong sets it to now, a message of another
\* type, or text that is not JSON, leaves it as it is
InfoAfter(cs, c, kind) ==
    IF kind = "pong" THEN [cs EXCEPT ![c].info = 0] ELSE cs

\* _handle_client: readline returned a record that is a pong
HandlerPong(c) ==
    /\ Quiet
    /\ conn[c].h = "reading"
    /\ conn[c].st = "open"
    /\ LET clients1 == AfterPong(server.clients, c)
           conn1 == InfoAfter(conn, c, "pong")
       IN  IF server.running
           THEN /\ server' = [server EXCEPT !.clients = clients1]
                /\ conn' = conn1
           ELSE /\ server' = [server EXCEPT !.clients = FinallyClients(clients1, c)]
                /\ conn' = FinallyConn(conn1, c)
    /\ bc' = RetireRound(bc, c)
    /\ hr' = RetireRound(hr, c)
    /\ UNCHANGED <<clientVars, tailerVars>>

\* _handle_client: readline returned a record that is not a pong
HandlerRecord(c) ==
    /\ Quiet
    /\ conn[c].h = "reading"
    /\ conn[c].st = "open"
    /\ \E kind \in {"other", "badjson", "nonobject", "badutf8"} :
         IF kind \in {"other", "badjson"} /\ server.running
         THEN UNCHANGED server /\ conn' = InfoAfter(conn, c, kind)
         ELSE /\ server' = [server EXCEPT !.clients = FinallyClients(@, c)]
              /\ conn' = FinallyConn(conn, c)
    /\ UNCHANGED <<bc, hr, clientVars, tailerVars>>

\* _handle_client: readline returned b'' or raised
HandlerEnd(c) ==
    /\ Quiet
    /\ conn[c].h = "reading"
    /\ conn[c].st \in {"lost", "closed"}
    /\ server' = [server EXCEPT !.clients = FinallyClients(@, c)]
    /\ conn' = FinallyConn(conn, c)
    /\ UNCHANGED <<bc, hr, clientVars, tailerVars>>

\* _handle_client: wait_for timed out after 1 s; while self.running
HandlerTimeout(c) ==
    /\ Quiet
    /\ conn[c].h = "reading"
    /\ IF server.running
       THEN UNCHANGED <<server, conn>>
       ELSE /\ server' = [server EXCEPT !.clients = FinallyClients(@, c)]
            /\ conn' = FinallyConn(conn, c)
    /\ UNCHANGED <<bc, hr, clientVars, tailerVars>>

\* the transport of c sees the connection go; a closing transport closes
\* its socket
PeerLost(c) ==
    /\ Quiet
    /\ conn[c].st \in {"open", "closing"}
    /\ conn' = [conn EXCEPT ![c].st = IF @ = "open" THEN "lost" ELSE "closed"]
    /\ UNCHANGED <<server, bc, hr, clientVars, tailerVars>>

\* _tail_log_file read a line: await self._broadcast(line.strip())
Broadcast ==
    /\ Quiet
    /\ server.running
    /\ bc.pc = "idle"
    /\ bc.h_line < MaxLines
    /\ bc' = [RoundStart(bc, {}) EXCEPT !.h_line = IF @ < 0 THEN @ ELSE @ + 1]
    /\ UNCHANGED <<server, conn, hr, clientVars, tailerVars>>

\* _broadcast: writer.write(data); await writer.drain()
BroadcastWrite ==
    /\ bc.pc = "run"
    /\ \E e \in bc.todo, full \in BOOLEAN :
         bc' = WriteItem(bc, e, full)
    /\ UNCHANGED <<server, conn, hr, clientVars, tailerVars>>

\* _broadcast: the peer reads again and the drain returns; on a closing
\* transport the socket is closed now that the buffer is empty
BroadcastDrained ==
    /\ ~Busy(hr)
    /\ bc.pc = "drain"
    /\ conn[bc.cur.conn].st \in {"open", "closing"}
    /\ bc' = NextItem(bc)
    /\ conn' = [conn EXCEPT ![bc.cur.conn].st = IF @ = "closing" THEN "closed" ELSE @]
    /\ UNCHANGED <<server, hr, clientVars, tailerVars>>

\* _broadcast: the connection went and the drain raises; when the socket
\* was closed after a flush the drain returns instead
BroadcastDrainFailed ==
    /\ ~Busy(hr)
    /\ bc.pc = "drain"
    /\ conn[bc.cur.conn].st \in {"lost", "closed"}
    /\ \/ bc' = WriteFailed(bc, bc.cur)
       \/ conn[bc.cur.conn].st = "closed" /\ bc' = NextItem(bc)
    /\ UNCHANGED <<server, conn, hr, clientVars, tailerVars>>

\* _broadcast: one iteration of the removal loop, up to wait_closed
BroadcastRemove ==
    /\ bc.pc = "cleanup"
    /\ \E e \in bc.disconnected :
         /\ Remove(e)
         /\ bc' = [bc EXCEPT !.pc = "closewait", !.disconnected = @ \ {e},
                              !.cur = e]
    /\ UNCHANGED <<hr, clientVars, tailerVars>>

\* _broadcast: wait_closed returned
BroadcastClosed ==
    /\ ~Busy(hr)
    /\ bc.pc = "closewait"
    /\ conn[bc.cur.conn].st # "closing"
    /\ bc' = [bc EXCEPT !.pc = IF bc.disconnected # {} THEN "cleanup" ELSE "ret",
                         !.cur = NoEntry]
    /\ UNCHANGED <<server, conn, hr, clientVars, tailerVars>>

\* _broadcast returns to the tail loop
BroadcastReturn ==
    /\ bc.pc = "ret"
    /\ bc' = [RoundIdle("idle") EXCEPT !.h_line = bc.h_line, !.h_log = bc.h_log]
    /\ UNCHANGED <<server, conn, hr, clientVars, tailerVars>>

\* current_time - last_active > CLIENT_TIMEOUT, for the tuples registered
TimedOut == {e \in server.clients : conn[e.conn].info > CLIENT_TIMEOUT}

\* _heartbeat_task: sleep(HEARTBEAT_INTERVAL) is over, a round begins
HeartbeatWake ==
    /\ ~Busy(bc)
    /\ hr.pc = "sleep"
    /\ hr.timer = 0
    /\ hr' = RoundStart(hr, TimedOut)
    /\ UNCHANGED <<server, conn, bc, clientVars, tailerVars>>

\* _heartbeat_task: one iteration: the timeout test, or write and drain
HeartbeatPing ==
    /\ hr.pc = "run"
    /\ \E e \in hr.todo, full \in BOOLEAN :
         IF e \in hr.late
         THEN hr' = NextItem([hr EXCEPT !.todo = @ \ {e},
                                        !.disconnected = @ \cup {e}])
         ELSE hr' = WriteItem(hr, e, full)
    /\ UNCHANGED <<server, conn, bc, clientVars, tailerVars>>

\* _heartbeat_task: the peer reads again and the drain returns; on a closing
\* transport the socket is closed now that the buffer is empty
HeartbeatDrained ==
    /\ ~Busy(bc)
    /\ hr.pc = "drain"
    /\ conn[hr.cur.conn].st \in {"open", "closing"}
    /\ hr' = NextItem(hr)
    /\ conn' = [conn EXCEPT ![hr.cur.conn].st = IF @ = "closing" THEN "closed" ELSE @]
    /\ UNCHANGED <<server, bc, clientVars, tailerVars>>

\* _heartbeat_task: the connection went and the drain raises; when the socket
\* was closed after a flush the drain returns instead
HeartbeatDrainFailed ==
    /\ ~Busy(bc)
    /\ hr.pc = "drain"
    /\ conn[hr.cur.conn].st \in {"lost", "closed"}
    /\ \/ hr' = WriteFailed(hr, hr.cur)
       \/ conn[hr.cur.conn].st = "closed" /\ hr' = NextItem(hr)
    /\ UNCHANGED <<server, conn, bc, clientVars, tailerVars>>

\* _heartbeat_task: one iteration of the removal loop, up to wait_closed
HeartbeatRemove ==
    /\ hr.pc = "cleanup"
    /\ \E e \in hr.disconnected :
         /\ Remove(e)
         /\ hr' = [hr EXCEPT !.pc = "closewait", !.disconnected = @ \ {e},
                              !.cur = e]
    /\ UNCHANGED <<bc, clientVars, tailerVars>>

\* _heartbeat_task: wait_closed returned
HeartbeatClosed ==
    /\ ~Busy(bc)
    /\ hr.pc = "closewait"
    /\ conn[hr.cur.conn].st # "closing"
    /\ hr' = [hr EXCEPT !.pc = IF hr.disconnected # {} THEN "cleanup" ELSE "ret",
                         !.cur = NoEntry]
    /\ UNCHANGED <<server, conn, bc, clientVars, tailerVars>>

\* _heartbeat_task: the round is over; while self.running: sleep
HeartbeatReturn ==
    /\ hr.pc = "ret"
    /\ hr' = IF server.running
             THEN [RoundIdle("sleep") EXCEPT !.timer = HEARTBEAT_INTERVAL]
             ELSE RoundIdle("done")
    /\ UNCHANGED <<server, conn, bc, clientVars, tailerVars>>

\* stop(): self.running = False
Stop ==
    /\ Quiet
    /\ server.running
    /\ server' = [server EXCEPT !.running = FALSE]
    /\ UNCHANGED <<conn, bc, hr, clientVars, tailerVars>>

\* nothing of the server is ready to run and no timer has run out
ServerCanWait ==
    /\ Quiet
    /\ bc.pc = "closewait" => conn[bc.cur.conn].st = "closing"
    /\ hr.pc = "closewait" => conn[hr.cur.conn].st = "closing"
    /\ hr.pc = "sleep" => hr.timer > 0
    /\ bc.pc = "drain" => conn[bc.cur.conn].st \in {"open", "closing"}
    /\ hr.pc = "drain" => conn[hr.cur.conn].st \in {"open", "closing"}
    /\ \A c \in Conns :
         conn[c].h = "reading"
            => (conn[c].st \in {"open", "closing"} /\ server.running)

\* ServerStep seconds pass
ServerTick ==
    /\ ServerCanWait
    /\ conn' = [c \in Conns |->
                  [conn[c] EXCEPT !.info = IF Registered(c)
                                           THEN Min(@ + ServerStep, ServerAgeCap)
                                           ELSE @]]
    /\ hr' = [hr EXCEPT !.timer = IF @ > ServerStep THEN @ - ServerStep ELSE 0]
    /\ UNCHANGED <<server, bc, clientVars, tailerVars>>

\* start(): self.running = True, the tail and heartbeat tasks are created
ServerInit ==
    /\ server = [running |-> TRUE, clients |-> {}]
    /\ conn = [c \in Conns |->
                 [st |-> "absent", h |-> "none", info |-> 0]]
    /\ bc = RoundIdle("idle")
    /\ hr = [RoundIdle("sleep") EXCEPT !.timer = HEARTBEAT_INTERVAL]

ServerProgram ==
    \/ \E c \in Conns : HandlerEnd(c) \/ HandlerTimeout(c)
    \/ BroadcastWrite \/ BroadcastDrainFailed \/ BroadcastRemove
    \/ BroadcastClosed \/ BroadcastReturn
    \/ HeartbeatWake \/ HeartbeatPing \/ HeartbeatDrainFailed \/ HeartbeatRemove
    \/ HeartbeatClosed \/ HeartbeatReturn
    \/ ServerTick

ServerEnvironment ==
    \/ \E c \in Conns : Accept(c) \/ HandlerPong(c) \/ HandlerRecord(c)
                         \/ PeerLost(c)
    \/ Broadcast \/ BroadcastDrained \/ HeartbeatDrained
    \/ Stop

ServerNext == ServerProgram \/ ServerEnvironment

(***************************************************************************)
(*                     LogServer._tail_log_file                            *)
(*                                                                         *)
(* disk is the file system as the tail loop sees it: path is the inode of  *)
(* the file at log_file_path (0: no file there) and files[i] the content   *)
(* of the file with inode i, a sequence of characters; appended counts     *)
(* the characters written since the tail task was created.  changed tells  *)
(* that the watched file was replaced, truncated or removed; the model     *)
(* follows the file through one such change.  old[i] is history: how many  *)
(* of the leading characters of file i were in it when the tail loop       *)
(* opened a file for the first time.  Once the loop is over the file is of *)
(* no interest any more.                                                   *)
(*                                                                         *)
(* tailer holds the locals of the coroutine and the await it is suspended  *)
(* in: "start" (task created), "sleep1" (the back-off of one second),      *)
(* "poll" (the sleep of 0.1 s at end-of-file), "broadcast" (awaiting       *)
(* _broadcast), "spin" (an iteration that reached no await), "done" (the   *)
(* loop is over), "failed" (an exception ended the task).                  *)
(* fh is file_handle: "none", "open", or "closed" (a file object that was  *)
(* closed and is still bound to the name); ino and pos are the file the    *)
(* handle is on and its read offset.  check_counter is kept modulo         *)
(* check_interval, the only way the loop looks at it.  h_emitted lists     *)
(* the arguments of the calls of _broadcast, h_start is the size the file   *)
(* had at the first open (-1 before it), h_replayed tells that a read      *)
(* started among the characters that were there at the first open, h_cut   *)
(* that the file was truncated under the open handle and the loop has not  *)
(* looked at the file since.  An                                           *)
(* iteration ends at the first call that raises, so one fault at most is   *)
(* met in each: in Path.exists() (its stat fails with an error other than  *)
(* file-not-found, which pathlib raises again), os.stat, open or readline. *)
(***************************************************************************)
check_interval == 100

\* the log writer appends up to MaxAppended characters in one behaviour
MaxAppended == 2

NL == "\n"
\* what the log writer appends: text and line ends
Chars == {"x", NL}
Inodes == {1, 2}

IsSpace(ch) == ch \in {" ", NL}

RECURSIVE StripLeft(_)
StripLeft(s) == IF s # <<>> /\ IsSpace(Head(s)) THEN StripLeft(Tail(s)) ELSE s

RECURSIVE StripRight(_)
StripRight(s) ==
    IF s # <<>> /\ IsSpace(s[Len(s)]) THEN StripRight(SubSeq(s, 1, Len(s) - 1))
    ELSE s

\* str.strip(): leading and trailing whitespace removed
Strip(s) == StripRight(StripLeft(s))

\* what is left of content s after offset pos
Rest(s, pos) == SubSeq(s, pos + 1, Len(s))

\* file_handle.readline() at offset pos of content s: up to and including
\* the next newline, or up to the end of the file if there is none
ReadLine(s, pos) ==
    LET rest == Rest(s, pos)
        nls == {i \in 1..Len(rest) : rest[i] = NL}
    IN  IF nls = {} THEN rest
        ELSE SubSeq(rest, 1, CHOOSE i \in nls : \A j \in nls : i <= j)

TailerNew ==
    [ pc |-> "start", current_inode |-> 0, current_size |-> 0,
      fh |-> "none", ino |-> 0, pos |-> 0, check_counter |-> 0,
      h_emitted |-> <<>>, h_start |-> -1, h_replayed |-> FALSE,
      h_cut |-> FALSE ]

DiskNew(content) ==
    [ path |-> 1, files |-> [i \in Inodes |-> IF i = 1 THEN content ELSE <<>>],
      appended |-> 0, changed |-> FALSE, old |-> [i \in Inodes |-> 0] ]

\* file_handle.close(), the name stays bound to the closed object
CloseHandle(t) ==
    [t EXCEPT !.fh = IF @ = "none" THEN "none" ELSE "closed", !.h_cut = FALSE]

\* await asyncio.sleep(1); check_counter = 0; continue
Backoff(t) == [t EXCEPT !.pc = "sleep1", !.check_counter = 0]

\* open(...) with the seek to the end left out: the cursor is at offset 0
OpenedAtStart(t, file_inode, file_size) ==
    [t EXCEPT !.fh = "open", !.ino = file_inode, !.pos = 0,
              !.current_inode = file_inode, !.current_size = 0,
              !.h_start = IF @ = -1 THEN file_size ELSE @, !.h_cut = FALSE]

\* open(...); seek(0, 2); current_inode = file_inode; current_size = tell()
Opened(t, file_inode, file_size) ==
    [t EXCEPT !.fh = "open", !.ino = file_inode, !.pos = file_size,
              !.current_inode = file_inode, !.current_size = file_size,
              !.h_start = IF @ = -1 THEN file_size ELSE @, !.h_cut = FALSE]

\* except Exception around the read: close the handle, forget the inode
ReadError(t) ==
    Backoff([t EXCEPT !.fh = "none", !.ino = 0, !.pos = 0, !.current_inode = 0,
                      !.h_cut = FALSE])

\* check_counter += 1
Counted(t) == [t EXCEPT !.check_counter = (@ + 1) % check_interval]

\* how much of the file under the handle of t was there at the first open;
\* when this very iteration made the first open, it is the whole file
OldMark(t) == IF tailer.h_start = -1 THEN t.h_start ELSE disk.old[t.ino]

\* if file_handle: line = readline(); broadcast it, or sleep 0.1 s
Read(t, readFails) ==
    CASE t.fh = "none" -> [t EXCEPT !.pc = "spin"]
      [] t.fh = "closed" \/ readFails -> ReadError(t)
      [] OTHER ->
           LET line == ReadLine(disk.files[t.ino], t.pos)
           IN  IF line # <<>>
               THEN Counted([t EXCEPT !.pos = @ + Len(line),
                                      !.current_size = t.pos + Len(line),
                                      !.h_emitted = Append(@, Strip(line)),
                                      !.h_replayed = @ \/ t.pos < OldMark(t),
                                      !.pc = "broadcast"])
               ELSE Counted([t EXCEPT !.pc = "poll"])

\* the finally block: the loop is over, and its locals with it
Finish(t) ==
    [TailerNew EXCEPT !.pc = "done", !.h_emitted = t.h_emitted,
                      !.h_start = t.h_start, !.h_replayed = t.h_replayed]

\* current_inode is None or file_inode != current_inode or
\* file_size < current_size
FileChanged(t, file_inode, file_size) ==
    \/ t.current_inode = 0
    \/ file_inode # t.current_inode
    \/ file_size < t.current_size

\* should_check or file_handle is None: the iteration looks at the file
CheckDue(t) == t.check_counter = 0 \/ t.fh = "none"

\* an exception leaves the loop: the finally block, and the task is over
Failed(t) == [Finish(t) EXCEPT !.pc = "failed"]

\* one iteration of while self.running, up to the await it reaches
LoopBody(t, fault) ==
    LET existsFails == fault = "exists"
        statFails == fault = "stat"
        openFails == fault = "open"
        readFails == fault = "read"
    IN
    IF ~server.running THEN Finish(t)
    ELSE IF CheckDue(t)
    THEN IF existsFails THEN Failed(t)
         ELSE IF disk.path = 0
         THEN Backoff([t EXCEPT !.fh = "none", !.ino = 0, !.pos = 0,
                                !.h_cut = FALSE])
         ELSE IF statFails THEN Backoff(t)
         ELSE LET file_inode == disk.path
                  file_size == Len(disk.files[disk.path])
              IN  IF FileChanged(t, file_inode, file_size)
                  THEN IF openFails THEN Backoff(CloseHandle(t))
                       ELSE Read(Opened(t, file_inode, file_size), readFails)
                  ELSE Read([t EXCEPT !.h_cut = FALSE], readFails)
    ELSE Read(t, readFails)

----------------------------------------------------------------------------
\* a file that is neither at the path nor held open is gone
Reclaimed(d, t) ==
    [d EXCEPT !.files = [i \in Inodes |->
                           IF i = d.path \/ (t.fh = "open" /\ t.ino = i)
                           THEN @[i] ELSE <<>>],
              !.old = [i \in Inodes |->
                           IF i = d.path \/ (t.fh = "open" /\ t.ino = i)
                           THEN @[i] ELSE 0]]

\* the first open of the tail loop, t to t1, finds file t1.ino as it is
FirstOpenSeen(d, t, t1) ==
    IF t.h_start = -1 /\ t1.h_start >= 0
    THEN [d EXCEPT !.old[t1.ino] = t1.h_start]
    ELSE d

\* the coroutine goes on from the await it was suspended in
TailResume ==
    /\ \E fault \in {"none", "exists", "stat", "open", "read"} :
         tailer' = LoopBody(tailer, fault)
    /\ disk' = Reclaimed(FirstOpenSeen(disk, tailer, tailer'), tailer')
    /\ UNCHANGED <<clientVars, serverVars>>

\* the task created by start() runs for the first time
TailStart ==
    /\ tailer.pc = "start"
    /\ TailResume

\* asyncio.sleep(1) is over
TailRetry ==
    /\ tailer.pc = "sleep1"
    /\ TailResume

\* asyncio.sleep(0.1) is over
TailPoll ==
    /\ tailer.pc = "poll"
    /\ TailResume

\* _broadcast returned
TailBroadcastDone ==
    /\ tailer.pc = "broadcast"
    /\ TailResume

\* the iteration reached no await: the next one follows at once
TailSpin ==
    /\ tailer.pc = "spin"
    /\ TailResume

\* the handle of the tail loop keeps inode i alive
Held(i) == tailer.fh = "open" /\ tailer.ino = i

\* the tail task has run and its loop is not over: what happened to the file
\* before its first iteration is the content it begins with
Watching == tailer.pc \notin {"start", "done", "failed"}

\* the server writing the log appends one character
AppendChar(ch) ==
    /\ Watching
    /\ disk.path # 0
    /\ disk.appended < MaxAppended
    /\ disk' = [disk EXCEPT !.files[disk.path] = Append(@, ch),
                            !.appended = @ + 1]
    /\ UNCHANGED <<tailer, clientVars, serverVars>>

\* the file at the path is replaced by a new, empty one
Rotate(j) ==
    /\ Watching
    /\ disk.path # 0 /\ j # disk.path /\ ~Held(j)
    /\ ~disk.changed
    /\ disk' = Reclaimed([disk EXCEPT !.path = j, !.files[j] = <<>>,
                                       !.changed = TRUE], tailer)
    /\ UNCHANGED <<tailer, clientVars, serverVars>>

\* the file is truncated to nothing
Truncate ==
    /\ Watching
    /\ disk.path # 0 /\ disk.files[disk.path] # <<>>
    /\ ~disk.changed
    /\ disk' = [disk EXCEPT !.files[disk.path] = <<>>, !.old[disk.path] = 0,
                            !.changed = TRUE]
    /\ tailer' = [tailer EXCEPT !.h_cut = Held(disk.path)]
    /\ UNCHANGED <<clientVars, serverVars>>

\* the file is removed
Delete ==
    /\ Watching
    /\ disk.path # 0
    /\ ~disk.changed
    /\ disk' = Reclaimed([disk EXCEPT !.path = 0, !.changed = TRUE], tailer)
    /\ UNCHANGED <<tailer, clientVars, serverVars>>

\* a file appears at the path; its inode can be one seen before
Create(j) ==
    /\ Watching
    /\ disk.path = 0 /\ ~Held(j)
    /\ disk' = [disk EXCEPT !.path = j, !.files[j] = <<>>]
    /\ UNCHANGED <<tailer, clientVars, serverVars>>

\* start() found the file and created the tail task
TailerInit ==
    /\ tailer = TailerNew
    /\ \E content \in {<<>>, <<"x", NL>>} : disk = DiskNew(content)

\* the tail loop stands for nothing but the lines it hands to _broadcast
TailerUnused == tailer = TailerNew /\ disk = DiskNew(<<>>)

TailerNext ==
    \/ TailStart \/ TailRetry \/ TailPoll \/ TailBroadcastDone \/ TailSpin
    \/ \E ch \in Chars : AppendChar(ch)
    \/ \E j \in Inodes : Rotate(j) \/ Create(j)
    \/ Truncate \/ Delete
    \/ Stop


(***************************************************************************)
(*                    LogClient: the lines of the game's log               *)
(*                                                                         *)
(* A log line is a string.  _process_log_line tries five checks in a fixed *)
(* order and invokes the callbacks of the first that matches; each call is *)
(* recorded in h_calls as [hook, args].  client.line is the content of the *)
(* log record that _process_log_line is given.                             *)
(***************************************************************************)
MARKER_BARE == "[Server thread/INFO]:"
MARKER == "[Server thread/INFO]: "
JOINED == " joined the game"
LEFT == " left the game"

\* _parse_death_event: the phrases that exclude a line
EXCLUDED == {"logged in", "lost connection", "joined the game", "left the game"}

DEATH_KEYWORDS ==
    { "was slain by", "was shot by", "fell from", "drowned", "suffocated in",
      "tried to swim in", "was blown up by", "hit the ground", "withered away",
      "went up in flames", "burned to death", "was killed", "was pummeled by",
      "starved to death", "was pricked to death", "was impaled",
      "experienced kinetic energy", "blew up", "was squashed", "fell out of",
      "died" }

\* s[i], and: p occurs in s at position i; p in s
At(s, i) == SubSeq(s, i, i)
StartsAt(s, p, i) ==
    i >= 1 /\ i + Len(p) - 1 <= Len(s) /\ SubSeq(s, i, i + Len(p) - 1) = p
Contains(s, p) == \E i \in 1..Len(s) : StartsAt(s, p, i)

\* re.search reports the leftmost match, split and find the first occurrence
Leftmost(S) == CHOOSE i \in S : \A j \in S : i <= j

\* the end of the longest run, from position i on, of characters that are
\* white space (\s+, with want) or are not (\S+, without)
RECURSIVE Scan(_, _, _)
Scan(s, i, want) ==
    IF i > Len(s) \/ IsSpace(At(s, i)) # want THEN i ELSE Scan(s, i + 1, want)

\* str.strip()
RECURSIVE StripText(_)
StripText(s) ==
    IF Len(s) > 0 /\ IsSpace(At(s, 1)) THEN StripText(SubSeq(s, 2, Len(s)))
    ELSE IF Len(s) > 0 /\ IsSpace(At(s, Len(s)))
         THEN StripText(SubSeq(s, 1, Len(s) - 1))
         ELSE s

NoMatch == [ok |-> FALSE]

\* JOIN_PATTERN.search and LEAVE_PATTERN.search: MARKER (\S+) suffix $, where
\* $ is the end of the text or the place before a newline that ends it;
\* group 1 is the player
SearchNameSuffix(s, suffix) ==
    LET AtEnd(k) == k = Len(s) + 1 \/ (k = Len(s) /\ At(s, k) = NL)
        MatchAt(i) ==
            LET a == i + Len(MARKER)
                b == Scan(s, a, FALSE)
            IN  StartsAt(s, MARKER, i) /\ b > a
                /\ StartsAt(s, suffix, b) /\ AtEnd(b + Len(suffix))
        S == {i \in 1..Len(s) : MatchAt(i)}
    IN  IF S = {} THEN NoMatch
        ELSE LET a == Leftmost(S) + Len(MARKER)
             IN  [ok |-> TRUE, player |-> SubSeq(s, a, Scan(s, a, FALSE) - 1)]

\* ADVANCEMENT_PATTERN.search:
\* MARKER (\S+) has made the advancement \[(.+)\]$; groups 1 and 2
SearchAdvancement(s) ==
    LET ADVANCED == " has made the advancement ["
        closing == IF At(s, Len(s)) = NL THEN Len(s) - 1 ELSE Len(s)
        MatchAt(i) ==
            LET a == i + Len(MARKER)
                b == Scan(s, a, FALSE)
                j == b + Len(ADVANCED)
            IN  StartsAt(s, MARKER, i) /\ b > a /\ StartsAt(s, ADVANCED, b)
                /\ closing > j /\ At(s, closing) = "]"
                /\ \A k \in j..(closing - 1) : At(s, k) # NL
        S == {i \in 1..Len(s) : MatchAt(i)}
    IN  IF S = {} THEN NoMatch
        ELSE LET a == Leftmost(S) + Len(MARKER)
                 b == Scan(s, a, FALSE)
             IN  [ok |-> TRUE, player |-> SubSeq(s, a, b - 1),
                  advancement |-> SubSeq(s, b + Len(ADVANCED), closing - 1)]

\* CHAT_PATTERN.search: <([^>]+)>\s+(.*); the groups player and message
SearchChat(s) ==
    LET Until(ch, i) ==
            IF \E k \in i..Len(s) : At(s, k) = ch
            THEN Leftmost({k \in i..Len(s) : At(s, k) = ch})
            ELSE Len(s) + 1
        MatchAt(i) ==
            LET g == Until(">", i + 1)
            IN  At(s, i) = "<" /\ g > i + 1 /\ g + 1 <= Len(s)
                /\ IsSpace(At(s, g + 1))
        S == {i \in 1..Len(s) : MatchAt(i)}
    IN  IF S = {} THEN NoMatch
        ELSE LET i == Leftmost(S)
                 g == Until(">", i + 1)
                 m == Scan(s, g + 1, TRUE)
             IN  [ok |-> TRUE, player |-> SubSeq(s, i + 1, g - 1),
                  message |-> SubSeq(s, m, Until(NL, m) - 1)]

\* _parse_death_event taking the whole text after the marker as the player
ParseDeathEventNoSplit(s) ==
    IF ~Contains(s, MARKER) THEN NoMatch
    ELSE LET a == Leftmost({i \in 1..Len(s) : StartsAt(s, MARKER, i)})
                  + Len(MARKER)
             content == StripText(SubSeq(s, a, Len(s)))
         IN  IF \E k \in DEATH_KEYWORDS : Contains(content, k)
             THEN [ok |-> TRUE, player |-> content, reason |-> content]
             ELSE NoMatch

\* _parse_death_event; content is log_line.split(MARKER)[1].strip(), and a
\* line that has the marker without the space after it makes split(...)[1]
\* raise IndexError, which gives None; the player is content.split(" ")[0]
ParseDeathEvent(s) ==
    IF ~Contains(s, MARKER_BARE) \/ ~Contains(s, MARKER) THEN NoMatch
    ELSE LET a == Leftmost({i \in 1..Len(s) : StartsAt(s, MARKER, i)})
                  + Len(MARKER)
             later == {k \in a..Len(s) : StartsAt(s, MARKER, k)}
             content == StripText(SubSeq(s, a, IF later = {} THEN Len(s)
                                                ELSE Leftmost(later) - 1))
             word == IF Contains(content, " ")
                     THEN Leftmost({k \in 1..Len(content) : At(content, k) = " "})
                     ELSE Len(content) + 1
         IN  IF StartsAt(content, "<", 1) THEN NoMatch
             ELSE IF \E k \in EXCLUDED : Contains(content, k) THEN NoMatch
             ELSE IF \E k \in DEATH_KEYWORDS : Contains(content, k)
                  THEN [ok |-> TRUE, player |-> SubSeq(content, 1, word - 1),
                        reason |-> content]
                  ELSE NoMatch

\* _process_log_line without the return after a match
ProcessLogLineNoReturn(c, s) ==
    LET j == SearchNameSuffix(s, JOINED)
        l == SearchNameSuffix(s, LEFT)
        a == SearchAdvancement(s)
        d == ParseDeathEvent(s)
        m == SearchChat(s)
        c1 == IF j.ok THEN Invoke(c, "on_player_join", <<j.player>>) ELSE c
        c2 == IF l.ok THEN Invoke(c1, "on_player_leave", <<l.player>>) ELSE c1
        c3 == IF a.ok THEN Invoke(c2, "on_player_advancement",
                                  <<a.player, a.advancement>>) ELSE c2
        c4 == IF d.ok THEN Invoke(c3, "on_player_death", <<d.player, d.reason>>)
              ELSE c3
    IN  IF m.ok
        THEN Invoke(Invoke(c4, "fake_event_handler", <<m.player, m.message>>),
                    "on_chat_message", <<m.player, m.message, "">>)
        ELSE c4

\* _process_log_line whose chat branch forgets the forwarding hook
ProcessLogLineChatOnce(c, s) ==
    LET j == SearchNameSuffix(s, JOINED)
        l == SearchNameSuffix(s, LEFT)
        a == SearchAdvancement(s)
        d == ParseDeathEvent(s)
        m == SearchChat(s)
    IN  IF j.ok THEN Invoke(c, "on_player_join", <<j.player>>)
        ELSE IF l.ok THEN Invoke(c, "on_player_leave", <<l.player>>)
        ELSE IF a.ok THEN Invoke(c, "on_player_advancement",
                                 <<a.player, a.advancement>>)
        ELSE IF d.ok THEN Invoke(c, "on_player_death", <<d.player, d.reason>>)
        ELSE IF m.ok
             THEN Invoke(c, "on_chat_message", <<m.player, m.message, "">>)
             ELSE c

\* _process_log_line
ProcessLogLine(c, s) ==
    LET j == SearchNameSuffix(s, JOINED)
        l == SearchNameSuffix(s, LEFT)
        a == SearchAdvancement(s)
        d == ParseDeathEvent(s)
        m == SearchChat(s)
    IN  IF j.ok THEN Invoke(c, "on_player_join", <<j.player>>)
        ELSE IF l.ok THEN Invoke(c, "on_player_leave", <<l.player>>)
        ELSE IF a.ok THEN Invoke(c, "on_player_advancement",
                                 <<a.player, a.advancement>>)
        ELSE IF d.ok THEN Invoke(c, "on_player_death", <<d.player, d.reason>>)
        ELSE IF m.ok
             THEN Invoke(Invoke(c, "fake_event_handler", <<m.player, m.message>>),
                         "on_chat_message", <<m.player, m.message, "">>)
             ELSE c

\* the lines explored: an optional time stamp, the marker or not, a name or
\* a chat prefix, and what follows
SampleLines ==
    LET Stamps == {"", "[12:00:00] "}
        Heads == {"", MARKER, MARKER_BARE}
        Names == {"Steve", "<Steve>", "<Steve> Alex"}
        Tails ==
            { "", JOINED, LEFT, " has made the advancement [Stone Age]",
              " was slain by Zombie", " logged in with entity id 5",
              " hello world", " died" \o JOINED, " joined the game\n",
              " has made the advancement []", " was slain by <Zombie> now",
              " has made the advancement [Steve died]",
              " was slain by Alex using [" \o MARKER \o "x]" }
    IN  {st \o h \o n \o t :
            st \in Stamps, h \in Heads, n \in Names, t \in Tails}

\* _process_message calls _process_log_line(log_content)
ProcessLine ==
    /\ client.line # "" /\ client.h_rec = "none"
    /\ client' = ProcessLogLine([client EXCEPT !.h_rec = "log"], client.line)
    /\ UNCHANGED <<serverVars, tailerVars>>

\* the log lines that the server sends in the runs of the whole client: a
\* join and a chat line (a log record that is no event is read by ReadRecord)
LiveLines == {MARKER \o "Steve" \o JOINED, "<Steve> hello world"}

\* the read loop got a log record with a line of the game in it
ReadLogLine ==
    /\ client.pc = "reading"
    /\ client.writer = "open"
    /\ \E s \in LiveLines :
         client' = LoopCheck(ProcessLogLine(Received(client, "log"), s))
    /\ UNCHANGED <<serverVars, tailerVars>>

(***************************************************************************)
(*                    LogClient.test_connection                            *)
(***************************************************************************)
\* open_connection returned a transport that stays in the client object
ProbeOpenedShared(c) ==
    [c EXCEPT !.probe = "reading", !.probe_writer = "open",
              !.reader = TRUE, !.writer = "open"]

\* open_connection returned: reader, writer = ...
ProbeOpened(c) == [c EXCEPT !.probe = "reading", !.probe_writer = "open"]

\* the command test_log calls test_connection
TestConnection ==
    /\ client.probe \in {"idle", "done"}
    /\ client' = [client EXCEPT !.probe = "connecting", !.probe_writer = "none"]
    /\ UNCHANGED <<serverVars, tailerVars>>

\* wait_for(open_connection, 5.0) is over: a transport, a timeout or an error
ProbeConnectDone ==
    /\ client.probe = "connecting"
    /\ \E ok \in BOOLEAN :
         client' = IF ok THEN ProbeOpened(client)
                         ELSE [client EXCEPT !.probe = "done"]
    /\ UNCHANGED <<serverVars, tailerVars>>

\* wait_for(readline, 10.0) is over: a line, b'', the timeout (all three
\* close the writer), a line that is not UTF-8 or an error of the read
ProbeReadDone ==
    /\ client.probe = "reading"
    /\ \E out \in {"line", "eof", "timeout", "badutf8", "error"} :
         client' = IF out \in {"line", "eof", "timeout"}
                   THEN [client EXCEPT !.probe = "closing",
                                       !.probe_writer = "closed"]
                   ELSE [client EXCEPT !.probe = "done"]
    /\ UNCHANGED <<serverVars, tailerVars>>

\* wait_closed of the probe returned or raised
ProbeCloseDone ==
    /\ client.probe = "closing"
    /\ client' = [client EXCEPT !.probe = "done"]
    /\ UNCHANGED <<serverVars, tailerVars>>
(***************************************************************************)
(* Specifications                                                          *)
(***************************************************************************)
\* the log server alone: the client object is constructed and never started
ClientUnused == client = ClientNew(RetryInterval, 0)

\* the plugin's client facing a server that has just started
InitClient == ClientInit /\ ServerInit /\ TailerUnused
SpecClient == InitClient /\ [][ClientNext]_vars

\* the event loop runs every coroutine of the client that is ready, every
\* await with a timeout ends, a transport that was closed finishes closing,
\* the drain of a pong (far below the high-water mark of the write buffer)
\* returns, and time passes; the server and the plugin owe nothing
ClientFairness ==
    /\ WF_vars(StartListening) /\ WF_vars(ConnectDone) /\ WF_vars(SleepDone)
    /\ WF_vars(ReadTimeout) /\ WF_vars(CloseDone) /\ WF_vars(TermCloseDone)
    /\ WF_vars(DrainDone)
    /\ WF_vars(HbStart) /\ WF_vars(HbCheck)
    /\ WF_vars(ClientTick)

SpecClientFair == SpecClient /\ ClientFairness

\* connections, broadcasts and heartbeat rounds; the tail loop is the
\* source of the lines broadcast
InitServer == ClientUnused /\ ServerInit /\ TailerUnused
SpecServer == InitServer /\ [][ServerNext]_vars

\* the event loop runs ready callbacks in the order they became ready, so a
\* coroutine that is ready again and again gets its turn, and time passes;
\* the peers and the log file owe nothing
ServerFairness ==
    /\ \A c \in Conns : SF_vars(HandlerEnd(c) \/ HandlerTimeout(c))
    /\ SF_vars(BroadcastWrite \/ BroadcastDrainFailed \/ BroadcastRemove
                \/ BroadcastClosed \/ BroadcastReturn)
    /\ SF_vars(HeartbeatWake \/ HeartbeatPing \/ HeartbeatDrainFailed
                \/ HeartbeatRemove \/ HeartbeatClosed \/ HeartbeatReturn)
    /\ WF_vars(ServerTick)

SpecServerFair == SpecServer /\ ServerFairness

\* the server with the lines passed to _broadcast numbered from 1, from the
\* moment the first sleep of the heartbeat task is over: what runs before the
\* next 10 s have passed, while stop() is not called
InitDelivery ==
    /\ ClientUnused /\ TailerUnused
    /\ server = [running |-> TRUE, clients |-> {}]
    /\ conn = [c \in Conns |-> [st |-> "absent", h |-> "none", info |-> 0]]
    /\ bc = [RoundIdle("idle") EXCEPT !.h_line = 0]
    /\ hr = RoundIdle("sleep")
DeliveryNext ==
    \/ \E c \in Conns : \/ Accept(c) \/ HandlerPong(c) \/ HandlerRecord(c)
                         \/ HandlerEnd(c) \/ HandlerTimeout(c) \/ PeerLost(c)
    \/ Broadcast \/ BroadcastWrite \/ BroadcastDrained \/ BroadcastDrainFailed
    \/ BroadcastRemove \/ BroadcastClosed \/ BroadcastReturn
    \/ HeartbeatWake \/ HeartbeatPing \/ HeartbeatDrained \/ HeartbeatDrainFailed
    \/ HeartbeatRemove \/ HeartbeatClosed \/ HeartbeatReturn
SpecDelivery == InitDelivery /\ [][DeliveryNext]_vars

\* the tail loop and the log file; every _broadcast it awaits returns
InitTailer == ClientUnused /\ ServerInit /\ TailerInit
SpecTailer == InitTailer /\ [][TailerNext]_vars

\* an iteration of the tail loop in which no call on the file fails
TailIterationOK ==
    /\ TailStart \/ TailRetry \/ TailPoll \/ TailBroadcastDone \/ TailSpin
    /\ tailer' = LoopBody(tailer, "none")

\* the sleeps of the tail loop end and its task is run again, and the calls
\* on the file do not fail for ever; the log writer owes nothing
TailerFairness == SF_vars(TailIterationOK)

SpecTailerFair == SpecTailer /\ TailerFairness

\* _process_log_line alone: a client, with callbacks of any kind, that is
\* handed one log line
InitClassify ==
    /\ \E s \in SampleLines, k \in {"ok", "raises", "absent", "chatonly"} :
          client = [ClientNew(RetryInterval, 0) EXCEPT !.line = s, !.sinks = k]
    /\ ServerInit /\ TailerUnused
SpecClassify == InitClassify /\ [][ProcessLine]_vars

\* the client fed with lines of the game; it retries without a limit and
\* has callbacks that fail, those of the plugin, or none
InitHooks ==
    /\ \E k \in {"raises", "absent", "chatonly"} :
          client = [ClientNew(RetryInterval, 0) EXCEPT !.sinks = k]
    /\ ServerInit /\ TailerUnused
HooksNext == ClientNext \/ ReadLogLine
SpecHooks == InitHooks /\ [][HooksNext]_vars

\* the client of the plugin, which retries once, and calls of
\* test_connection at any moment
InitProbe == client = ClientNew(RetryInterval, 1) /\ ServerInit /\ TailerUnused
ProbeNext ==
    \/ ClientNext
    \/ TestConnection \/ ProbeConnectDone \/ ProbeReadDone \/ ProbeCloseDone
SpecProbe == InitProbe /\ [][ProbeNext]_vars

(***************************************************************************)
(* Claims about the client                                                 *)
(***************************************************************************)
\* a client with a retry policy that has never obtained a connection
NeverConnected(c) ==
    c.reconnect_interval > 0 /\ c.max_reconnect_attempts > 0 /\ ~c.h_anySuccess

StartListeningOver(c) == c.pc \in {"done", "failed"}

\* C1 as stated: with R > 0 and M > 0, a client whose attempts all fail makes
\* at most M connection attempts, at least R apart, and then stops for good.
C1_AtMostM ==
    /\ [](NeverConnected(client) =>
            /\ client.h_attempts <= client.max_reconnect_attempts
            /\ client.h_gapOK)
    /\ [][StartListeningOver(client) =>
            /\ StartListeningOver(client')
            /\ client'.h_attempts = client.h_attempts]_vars

\* C1 as amended: with R > 0 and M > 0, a client whose attempts all fail makes
\* at most M + 1 connection attempts (the first one and M reconnections), at
\* least R apart; when attempt M + 1 has failed start_listening returns, and
\* after it returned no attempt is made.
C1_AtMostMPlusOne ==
    /\ [](NeverConnected(client) =>
            /\ client.h_attempts <= client.max_reconnect_attempts + 1
            /\ client.h_gapOK
            /\ (client.h_attempts = client.max_reconnect_attempts + 1
                 /\ client.pc # "connecting") => client.pc = "done")
    /\ [][StartListeningOver(client) =>
            /\ StartListeningOver(client')
            /\ client'.h_attempts = client.h_attempts]_vars

\* the retry budget is used up: attempt M + 1 failed and start_listening returned
C1_Exhausted ==
    /\ NeverConnected(client)
    /\ client.h_attempts = client.max_reconnect_attempts + 1
    /\ client.pc = "done"

\* C2: once disconnect(stop_reconnect=True) was requested, no connection
\* attempt starts and the client is never Connected again.
C2_StopIsFinal ==
    [][client.term # "idle" =>
         /\ ~Connected(client')
         /\ ~(client'.pc = "connecting" /\ client.pc # "connecting")]_vars

\* C3 as stated: with M > 0 the reconnection attempts of one start_listening
\* run, summed over all outages, never exceed M.
C3_TotalCap ==
    client.max_reconnect_attempts > 0 =>
        client.h_retries <= client.max_reconnect_attempts

\* C3 as amended: with M > 0 the reconnection attempts made since the last
\* successful connection (or since start_listening began) never exceed M.
C3_CapPerOutage ==
    client.max_reconnect_attempts > 0 =>
        client.h_retriesSinceUp <= client.max_reconnect_attempts

\* a run that reconnected and has made more than M reconnection attempts in all
C3_ManyOutages ==
    /\ client.max_reconnect_attempts > 0
    /\ client.h_anySuccess
    /\ client.h_retriesSinceUp = client.max_reconnect_attempts
    /\ client.h_retries > client.max_reconnect_attempts

\* C9 as stated: while Connected, the last ping (or the session start) is at
\* most HEARTBEAT_TIMEOUT old.
C9_WithinTimeout ==
    Connected(client) => client.h_sincePing <= HEARTBEAT_TIMEOUT

\* C9 as amended: while Connected, the last ping (or the session start) is at
\* most HEARTBEAT_TIMEOUT + 5 s old (the monitor looks every 5 s), also when
\* log records keep arriving.
C9_WithinTimeoutPlusPeriod ==
    Connected(client) => client.h_sincePing <= HEARTBEAT_TIMEOUT + HB_CHECK_PERIOD

\* the monitor has just ended a session whose last ping is older than the timeout
C9_MonitorFired ==
    /\ client.hb = "done" /\ ~client.running /\ client.writer = "open"
    /\ client.pc = "reading"
    /\ client.h_sincePing > HEARTBEAT_TIMEOUT



\* start_listening is running on a client with R > 0 and M = 0 that has
\* never obtained a connection and was never told to stop
Hopeless(c) ==
    /\ c.reconnect_interval > 0 /\ c.max_reconnect_attempts = 0
    /\ ~c.h_anySuccess /\ c.term = "idle"
    /\ c.pc \notin {"idle", "initconn", "failed"}

\* C15: with R > 0 and M = 0, as long as no attempt succeeds and nobody
\* calls disconnect(), start_listening has not returned (it is in an attempt
\* or in the wait before the next one), and every wait that follows a
\* failed attempt leads to another attempt.
C15_RetriesForever ==
    /\ [](Hopeless(client) => client.pc \in {"connecting", "retrywait"})
    /\ (Hopeless(client) /\ client.pc = "retrywait")
           ~> (client.pc = "connecting" \/ ~Hopeless(client))

\* more failed attempts than the counters of the model tell apart, and the
\* next attempt is under way
C15_StillTrying ==
    /\ Hopeless(client) /\ client.pc = "connecting"
    /\ client.h_attempts = CountCap /\ client.reconnect_count = CountCap

\* start_listening was called (its task exists) and has not returned
Listening(c) == c.pc \notin {"idle", "initconn", "failed", "done"}

\* C16: once disconnect() was requested, a start_listening that is running
\* returns, and the client then holds no reader and no writer; the request
\* may arrive at any await of start_listening (connection attempt, retry
\* wait, timed read, pong, close).
C16_StopReturns ==
    (client.term # "idle" /\ Listening(client))
        ~> (client.pc = "done" /\ ~client.reader /\ client.writer = "none")

\* C20: a ping record that the client has just processed was answered with
\* exactly one pong, written before the client suspends or reads again, and
\* a record of any other kind was answered with none.
C20_OnePongPerPing ==
    /\ client.h_rec = "ping" => client.h_pongs = 1
    /\ client.h_rec \in {"log", "bad"} => client.h_pongs = 0

\* a connected client has answered a ping and is reading the next record
C20_PingAnswered ==
    /\ Connected(client) /\ client.pc = "reading"
    /\ client.h_rec = "ping" /\ client.h_pongs = 1

\* this step is the read loop taking a malformed record
ReadsBad ==
    /\ client.pc = "reading" /\ client.writer = "open"
    /\ \E kind \in BadKinds, suspend \in BOOLEAN :
         client' = ProcessMessage(Received(client, kind), kind, suspend)

\* C21: reading a record that is not UTF-8, not JSON or not a JSON object
\* invokes no callback; a Connected client keeps its reader and writer, is
\* Connected afterwards and awaits the next record.
C21_BadRecordSkipped ==
    [][ReadsBad =>
         /\ client'.h_calls = <<>>
         /\ Connected(client) =>
               /\ Connected(client') /\ client'.pc = "reading"
               /\ client'.reader = client.reader
               /\ client'.writer = client.writer]_vars

\* a Connected client has just discarded a malformed record and reads on
C21_BadThenReading ==
    /\ client.h_rec = "bad" /\ client.h_calls = <<>>
    /\ Connected(client) /\ client.pc = "reading"

(***************************************************************************)
(* The classification of log lines                                         *)
(***************************************************************************)
\* the checks of _process_log_line in their order, what each matches, and
\* the hooks that belong to each
Checks == <<"join", "leave", "advancement", "death", "chat">>
Matches(s, e) ==
    CASE e = "join" -> SearchNameSuffix(s, JOINED).ok
      [] e = "leave" -> SearchNameSuffix(s, LEFT).ok
      [] e = "advancement" -> SearchAdvancement(s).ok
      [] e = "death" -> ParseDeathEvent(s).ok
      [] OTHER -> SearchChat(s).ok
EventHooks(e) ==
    CASE e = "join" -> {"on_player_join"}
      [] e = "leave" -> {"on_player_leave"}
      [] e = "advancement" -> {"on_player_advancement"}
      [] e = "death" -> {"on_player_death"}
      [] OTHER -> {"fake_event_handler", "on_chat_message"}

\* the hooks invoked for the latest record, and: the line was processed
HooksCalled(c) == {c.h_calls[i].hook : i \in 1..Len(c.h_calls)}
Processed(c) == c.line # "" /\ c.h_rec = "log"

\* C24: the hooks invoked for a line belong to one event, and a line that
\* matches a check never triggers the hook of a later check
C24_FirstMatchWins ==
    Processed(client) =>
        /\ \E e \in 1..5 : HooksCalled(client) \subseteq EventHooks(Checks[e])
        /\ \A e, f \in 1..5 :
              e < f /\ Matches(client.line, Checks[e])
                 => HooksCalled(client) \cap EventHooks(Checks[f]) = {}

\* a line that is a join and a chat line at once was taken as a join
C24_JoinBeatsChat ==
    /\ Processed(client)
    /\ Matches(client.line, "join") /\ Matches(client.line, "chat")
    /\ HooksCalled(client) = {"on_player_join"}

\* the six lines of the scenarios
ChatLine == "<Steve> hello world"
JoinLine == "[Server thread/INFO]: Steve joined the game"
LeaveLine == "[Server thread/INFO]: Steve left the game"
AdvancementLine == "[Server thread/INFO]: Steve has made the advancement [Stone Age]"
DeathLine == "[Server thread/INFO]: Steve was slain by Zombie"
LoginLine == "[Server thread/INFO]: Steve logged in with entity id 5"

\* the line was processed by a client that has every hook
Classified(s) ==
    Processed(client) /\ client.line = s /\ client.sinks \in {"ok", "raises"}

\* C25: the six scenario lines give Chat(Steve, hello world), Join(Steve),
\* Leave(Steve), Advancement(Steve, Stone Age), Death(Steve, Steve was slain
\* by Zombie) and no event
C25_Scenarios ==
    /\ Classified(ChatLine) =>
          client.h_calls =
             << Call("fake_event_handler", <<"Steve", "hello world">>),
                Call("on_chat_message", <<"Steve", "hello world", "">>) >>
    /\ Classified(JoinLine) =>
          client.h_calls = << Call("on_player_join", <<"Steve">>) >>
    /\ Classified(LeaveLine) =>
          client.h_calls = << Call("on_player_leave", <<"Steve">>) >>
    /\ Classified(AdvancementLine) =>
          client.h_calls =
             << Call("on_player_advancement", <<"Steve", "Stone Age">>) >>
    /\ Classified(DeathLine) =>
          client.h_calls =
             << Call("on_player_death",
                     <<"Steve", "Steve was slain by Zombie">>) >>
    /\ Classified(LoginLine) => client.h_calls = <<>>

\* the death scenario was classified
C25_DeathScenario ==
    /\ Classified(DeathLine)
    /\ client.h_calls =
          << Call("on_player_death", <<"Steve", "Steve was slain by Zombie">>) >>

\* what a line is classified as: the first check that matches it
Classification(s) ==
    IF \E e \in 1..5 : Matches(s, Checks[e])
    THEN Checks[Leftmost({e \in 1..5 : Matches(s, Checks[e])})]
    ELSE "none"

\* the calls of one hook among the calls made for the latest record
CallsOf(c, hook) == {i \in 1..Len(c.h_calls) : c.h_calls[i].hook = hook}

C28_ConnectedCounterZero == Connected(client) => client.reconnect_count = 0

(***************************************************************************)
(* The callbacks of the client                                             *)
(***************************************************************************)
\* the steps that invoke callbacks: a log line is read, the session is over
\* (finally block, after disconnect), a connection attempt that follows a
\* retry wait succeeds
\* what _process_log_line invokes for each of the lines sent, by callbacks
LiveCalls ==
    [k \in {"ok", "raises", "absent", "chatonly"} |->
       [s \in LiveLines |->
          ProcessLogLine([ClientNew(RetryInterval, 0) EXCEPT !.sinks = k],
                         s).h_calls]]
ReadsLine ==
    /\ client.pc = "reading" /\ client.writer = "open"
    /\ client'.h_rec = "log"
    /\ \E s \in LiveLines :
         client' = LoopCheck([Received(client, "log") EXCEPT
                                 !.h_calls = LiveCalls[client.sinks][s]])
SessionOver == client.pc = "closing" /\ client' = AfterDisconnect(client)
Reconnects ==
    /\ client.pc = "connecting" /\ client.reconnect_count > 0
    /\ client' = SessionStart(ConnectOK(client))

\* C23: whatever the callbacks do, raise or not be there, a Connected client
\* that reads a line stays Connected and awaits the next record, the end of
\* a session is followed by the retry policy, and a reconnection by the read
\* loop
C23_SinksDoNotBreakLoop ==
    [][/\ ReadsLine /\ Connected(client) =>
             /\ Connected(client') /\ client'.pc = "reading"
             /\ client'.reader = client.reader
             /\ client'.writer = client.writer
       /\ SessionOver =>
             client'.pc = IF /\ client.should_reconnect
                             /\ client.reconnect_interval > 0
                             /\ ShouldRetry(client)
                          THEN "retrywait" ELSE "done"
       /\ Reconnects => Connected(client') /\ client'.pc = "reading"]_vars

\* the disconnect callback raised and the client waits to retry
C23_RaisedThenRetry ==
    /\ client.sinks = "raises" /\ client.pc = "retrywait"
    /\ "on_disconnect" \in HooksCalled(client)

\* the client is Connected again after it had to retry
C28_ConnectedAfterRetry ==
    Connected(client) /\ client.h_retries > 0 /\ client.reconnect_count = 0

\* a connection attempt succeeds
Succeeds ==
    /\ client.pc \in {"initconn", "connecting"}
    /\ client.writer = "none" /\ client'.writer = "open"

\* how often a callback was invoked by the latest event
Invocations(c, hook) == Cardinality(CallsOf(c, hook))

\* C29: with a reconnect callback set, a connection attempt that succeeds
\* invokes it once if the attempt was made after a retry wait of
\* start_listening (after a failed attempt or the loss of a connection) and
\* not at all otherwise (the first attempt); no other step invokes it
C29_ReconnectHook ==
    [][HasSink(client, "on_reconnect") =>
          /\ Succeeds =>
                Invocations(client', "on_reconnect")
                   = IF client.pc = "connecting" /\ client.h_retries > 0
                     THEN 1 ELSE 0
          /\ ~Succeeds =>
                Invocations(client', "on_reconnect")
                   <= Invocations(client, "on_reconnect")]_vars

\* the client is connected again after a retry and the callback was invoked
C29_Reconnected ==
    /\ Connected(client) /\ client.h_retries > 0
    /\ Invocations(client, "on_reconnect") = 1

\* start_listening starts a connection attempt
AttemptStarts == client.pc # "connecting" /\ client'.pc = "connecting"

C30_CleanWithoutStop ==
    [][AttemptStarts /\ client.h_anySuccess /\ client.term = "idle" =>
          /\ ~client'.reader /\ client'.writer = "none"
          /\ client'.hb \notin {"new", "sleep"}
          /\ HasSink(client, "on_disconnect") => client'.h_disc = "paid"]_vars

(***************************************************************************)
(* test_connection                                                         *)
(***************************************************************************)
\* a step of test_connection
ProbeStep ==
    client'.probe # client.probe \/ client'.probe_writer # client.probe_writer

\* C27: no step of test_connection changes the reader, the writer, running,
\* the retry counter, should_reconnect or the time of the last heartbeat
C27_ProbeFrame ==
    [][ProbeStep =>
          /\ client'.reader = client.reader
          /\ client'.writer = client.writer
          /\ client'.running = client.running
          /\ client'.reconnect_count = client.reconnect_count
          /\ client'.should_reconnect = client.should_reconnect
          /\ client'.heartbeat_age = client.heartbeat_age]_vars

\* a probe has read its record while start_listening waits to retry
C27_ProbedDuringRetryWait ==
    /\ client.probe = "closing" /\ client.pc = "retrywait"
    /\ client.h_anySuccess

(***************************************************************************)
(* Failures of the pong, and a client without retries                      *)
(***************************************************************************)
\* the drain of a pong raised: _send_pong logs the error and returns, and
\* the read loop goes on as after a drain that returned
PongWriteFails == client.pc = "draining" /\ client' = LoopCheck(client)

\* a read failed or the stream ended
ReadFails == client.pc = "reading" /\ client' = Finally(client)

\* C31: a failure while writing a pong takes a Connected client out of
\* Connected, into the end of the session, as a read failure does
C31_PongFailureDisconnects ==
    [][PongWriteFails /\ Connected(client) =>
          ~Connected(client') /\ client'.pc \in {"closing", "retrywait", "done"}]_vars

\* what does hold: a read failure takes the client out of Connected
C31_ReadFailureDisconnects ==
    [][ReadFails /\ Connected(client) =>
          ~Connected(client') /\ client'.pc \in {"closing", "retrywait", "done"}]_vars

\* a connection attempt of start_listening fails
AttemptFails ==
    /\ client.pc = "connecting" /\ client'.pc # "connecting"
    /\ client'.writer = "none" /\ client'.term = client.term

\* the session is over: the finally block has run to its end
SessionEnds ==
    /\ client.pc \in {"reading", "draining", "closing"}
    /\ client'.pc \notin {"reading", "draining", "closing"}

\* C32: with reconnect_interval = 0 the client never waits to retry and
\* never makes a retry; start_listening returns when an attempt fails and
\* when a session is over, and does not come back
C32_NoRetryWithoutInterval ==
    [][client.reconnect_interval = 0 =>
          /\ client'.pc # "retrywait" /\ client'.h_retries = 0
          /\ AttemptFails => client'.pc = "done"
          /\ SessionEnds => client'.pc = "done"
          /\ client.pc = "done" => client'.pc = "done"]_vars

\* without an interval and with a budget of attempts, start_listening has
\* returned after the loss of a connection
C32_ReturnedAfterLoss ==
    /\ client.reconnect_interval = 0 /\ client.max_reconnect_attempts > 0
    /\ client.pc = "done" /\ client.h_anySuccess /\ client.term = "idle"

\* the text of line s after its first marker "[Server thread/INFO]: ",
\* without the white space around it
TextAfterMarker(s) ==
    LET a == Leftmost({i \in 1..Len(s) : StartsAt(s, MARKER, i)}) + Len(MARKER)
    IN  StripText(SubSeq(s, a, Len(s)))

\* t is a death report: no chat quote, none of the phrases of other system
\* messages, and a death keyword
DeathText(t) ==
    /\ ~StartsAt(t, "<", 1)
    /\ \A k \in EXCLUDED : ~Contains(t, k)
    /\ \E k \in DEATH_KEYWORDS : Contains(t, k)

\* C38: _parse_death_event gives a death exactly for a line that has the
\* marker and whose text after the marker is a death report; the reason is
\* the whole of that text and the player is its first word, the part before
\* the first space.
C38_DeathOfWholeText ==
    client.line # "" =>
       LET s == client.line
           d == ParseDeathEvent(s)
       IN  /\ d.ok <=> (Contains(s, MARKER) /\ DeathText(TextAfterMarker(s)))
           /\ d.ok => /\ d.reason = TextAfterMarker(s)
                      /\ ~Contains(d.player, " ")
                      /\ StartsAt(d.reason \o " ", d.player \o " ", 1)

\* C39: when test_connection has returned, the transport it opened is not
\* left open: writer.close() was called on it, whether the read gave a
\* record, the end of the stream, a timeout or an error.
C39_ProbeClosesTransport ==
    client.probe = "done" => client.probe_writer # "open"

(***************************************************************************)
(* Claims about the server                                                 *)
(***************************************************************************)
LateConns(r) == {e.conn : e \in r.late}
FailedConns == bc.h_failed \cup hr.h_failed
EntriesOf(c) == {e \in server.clients : e.conn = c}

\* C4: in one broadcast no connection takes the log message twice, a
\* connection that was not registered when the broadcast started takes none,
\* when the broadcast returns every connection that was registered at its
\* start and is still open has taken exactly one, and a connection on which
\* a write has failed is not open and never takes a message again.
C4_ExactlyOnce ==
    /\ [](\A c \in Conns :
            /\ bc.h_got[c] <= 1
            /\ c \notin bc.h_snap => bc.h_got[c] = 0
            /\ (bc.pc = "ret" /\ c \in bc.h_snap /\ conn[c].st = "open")
                   => bc.h_got[c] = 1
            /\ c \in FailedConns => conn[c].st # "open")
    /\ [][\A c \in Conns :
            conn[c].st \in {"lost", "closed"}
                => conn'[c].st # "open" /\ bc'.h_got[c] <= bc.h_got[c]]_vars

\* a broadcast returns: one connection took the line, the other one had
\* failed a ping of the round still under way and took nothing
C4_OneEach ==
    /\ bc.pc = "ret"
    /\ \E c, d \in bc.h_snap :
         /\ bc.h_got[c] = 1 /\ conn[c].st = "open"
         /\ d \in hr.h_failed /\ bc.h_got[d] = 0

\* C5: when a round is over, every connection on which one of its writes
\* failed has no entry in the registry and a closed transport.
C5_FailedIsGone ==
    \A c \in Conns :
        /\ (bc.pc = "ret" /\ c \in bc.h_failed)
               => EntriesOf(c) = {} /\ CloseCalled(c)
        /\ (hr.pc = "ret" /\ c \in hr.h_failed)
               => EntriesOf(c) = {} /\ CloseCalled(c)

\* when round r is over, every connection of its snapshot that neither
\* failed nor had timed out took the message of the round
RoundSpares(r) ==
    \A c \in r.h_snap \ (r.h_failed \cup LateConns(r)) :
        r.pc = "ret" => r.h_got[c] = 1

\* C6: a round closes and deregisters only connections on which a write
\* failed or which had timed out, and when it is over every other
\* connection of its snapshot has taken the log line or the ping.
C6_OthersUntouched ==
    /\ [](RoundSpares(bc) /\ RoundSpares(hr))
    /\ [][\A c \in Conns :
            \/ c \in FailedConns \cup LateConns(hr)
            \/ conn'[c].h # conn[c].h
            \/ /\ ~CloseCalled(c) => ~CloseCalled(c)'
               /\ EntriesOf(c) # {} => EntriesOf(c)' # {}]_vars

\* a heartbeat round is over in which the write to one connection failed
\* and the other connection, still open and registered, took the ping
C6_OneFailedOtherPinged ==
    /\ hr.pc = "ret"
    /\ \E c, d \in hr.h_snap :
         /\ c \in hr.h_failed /\ conn[c].st = "closed"
         /\ d # c /\ hr.h_got[d] = 1 /\ conn[d].st = "open" /\ Registered(d)

\* C7: every broadcast returns to the tail loop, and every heartbeat round
\* comes to its end, whatever the peers do.
C7_NothingBlocks ==
    /\ (bc.pc # "idle") ~> (bc.pc = "idle")
    /\ (hr.pc \notin {"sleep", "done"}) ~> (hr.pc \in {"sleep", "done"})

\* C8: a connection whose last activity recorded by its handler is older
\* than HEARTBEAT_INTERVAL + CLIENT_TIMEOUT is not registered and its
\* transport is closed.
C8_SilentIsRemoved ==
    \A c \in Conns :
        conn[c].info > HEARTBEAT_INTERVAL + CLIENT_TIMEOUT
            => EntriesOf(c) = {} /\ CloseCalled(c)

\* the socket of c is released (or c was never accepted)
Released(c) == conn[c].st \in {"absent", "closed"}

\* the heartbeat loop has left its while, and the _broadcast awaited by the
\* tail loop has returned, so that the tail loop sees the flag
LoopsOver == hr.pc = "done" /\ bc.pc = "idle"

\* C17: after stop() the registry becomes empty, every accepted
\* connection's transport is closed, and the heartbeat loop and the tail
\* loop (its pending _broadcast) come to an end.
C17_StopEndsAll ==
    ~server.running
        ~> (server.clients = {} /\ (\A c \in Conns : Released(c)) /\ LoopsOver)

\* round r takes a tuple of c from its disconnected set: discard and close
RoundRemoves(r, c) ==
    /\ r.pc = "cleanup"
    /\ \E e \in r.disconnected : e.conn = c /\ e \notin r'.disconnected

\* this step runs a removal of c: the finally block of its handler, or one
\* iteration of the removal loop of _broadcast or of the heartbeat round
Removes(c) ==
    \/ conn[c].h = "reading" /\ conn'[c].h = "done"
    \/ RoundRemoves(bc, c)
    \/ RoundRemoves(hr, c)

C19_ClosedOnce ==
    [][\A c \in Conns : Removes(c) => ~CloseCalled(c)]_vars

\* C22: while the server runs, the handler of a connection whose transport
\* is open does not leave its read loop, whatever record it reads: the
\* connection stays registered by it and is not closed by it.
C22_BadRecordKeepsConn ==
    [][\A c \in Conns :
          server.running /\ conn[c].st = "open" /\ conn[c].h = "reading"
             => conn'[c].h = "reading"]_vars

(***************************************************************************)
(* The time of last activity                                               *)
(***************************************************************************)
\* the handler of c awaits a record on an open transport
AwaitsRecord(c) ==
    server.running /\ conn[c].st = "open" /\ conn[c].h = "reading"

\* C33: every message that parses, a pong or one of another type, sets the
\* time of last activity of its connection to the time of receipt (age 0)
C33_EveryMessageRefreshes ==
    \A c \in Conns :
       AwaitsRecord(c) =>
          \A kind \in {"pong", "other"} : InfoAfter(conn, c, kind)[c].info = 0

\* what does hold: a pong sets the age of last activity to 0
C33_PongRefreshes ==
    \A c \in Conns :
       AwaitsRecord(c) => InfoAfter(conn, c, "pong")[c].info = 0

\* the heartbeat round closes c because it found c timed out
TimeoutClose(c) ==
    /\ RoundRemoves(hr, c)
    /\ c \in LateConns(hr) \ hr.h_failed

\* C34: in a heartbeat round a connection takes at most one ping and a
\* connection found timed out takes none, and the round never closes for
\* timeout a registered connection whose current last-active value is at most
\* CLIENT_TIMEOUT old, also when its pong was recorded while the round was
\* suspended on the write to another connection.
C34_FreshNeverTimedOut ==
    /\ [](\A c \in Conns :
            /\ hr.h_got[c] <= 1
            /\ c \in LateConns(hr) => hr.h_got[c] = 0)
    /\ [][\A c \in Conns :
            TimeoutClose(c) /\ Registered(c)
                => conn[c].info > CLIENT_TIMEOUT]_vars

\* the numbers in s go up strictly: s keeps the order of emission and holds
\* no line twice
Increasing(s) == \A i, j \in 1..Len(s) : i < j => s[i] < s[j]

\* C35: the log messages a connection takes are, in order and without
\* duplicates, lines emitted while it was registered: each one is the line of
\* the broadcast in progress, whose snapshot holds the connection, and once
\* a later line has been emitted no earlier line is written to it.
C35_DeliveredInOrder ==
    /\ [](\A c \in Conns :
            /\ Increasing(bc.h_log[c])
            /\ conn[c].st = "absent" => bc.h_log[c] = <<>>)
    /\ [][\A c \in Conns :
            bc'.h_log[c] # bc.h_log[c]
                => /\ c \in bc.h_snap
                   /\ bc'.h_log[c] = Append(bc.h_log[c], bc.h_line)]_vars

\* one connection took line 2 only and the other took no line: the write of
\* line 2 to it failed
C35_LateJoinerAndLoser ==
    /\ bc.h_log["a"] = <<2>> /\ bc.h_log["b"] = <<>>
    /\ "b" \in bc.h_failed /\ bc.h_line = 2

\* C40: the registry never holds two tuples of one connection: a pong puts
\* the new tuple in the place of the one the handler held, also while a
\* broadcast or a heartbeat round is under way, and once the handler of a
\* connection has run its finally block the registry holds no tuple of it.
C40_OneEntryPerTransport ==
    \A c \in Conns :
        /\ Cardinality(EntriesOf(c)) <= 1
        /\ conn[c].h = "done" => EntriesOf(c) = {}

\* the pong of a connection was recorded while a broadcast is suspended in
\* a drain and still holds the tuple from before the pong, and the handler of
\* the other connection is over
C40_PongDuringBroadcast ==
    \E c \in Conns :
        /\ bc.pc = "drain" /\ Entry(c, "old") \in bc.todo \cup {bc.cur}
        /\ EntriesOf(c) = {Entry(c, "cur")}
        /\ \E d \in Conns \ {c} : conn[d].h = "done"

(***************************************************************************)
(* Claims about the tail loop                                              *)
(***************************************************************************)
IsPrefix(s, t) == Len(s) <= Len(t) /\ SubSeq(t, 1, Len(s)) = s

\* the lines of content s: the text before each newline, in order; what
\* follows the last newline is no line yet
RECURSIVE Lines(_)
Lines(s) ==
    LET nls == {i \in 1..Len(s) : s[i] = NL}
    IN  IF nls = {} THEN <<>>
        ELSE LET n == CHOOSE i \in nls : \A j \in nls : i <= j
             IN  <<SubSeq(s, 1, n - 1)>> \o Lines(SubSeq(s, n + 1, Len(s)))

\* the lines appended to the watched file since the tail loop first opened it
AppendedLines == Lines(Rest(disk.files[disk.path], tailer.h_start))

\* C10: as long as the watched file was neither replaced, truncated nor
\* removed, what the tail loop has handed to _broadcast is the sequence of
\* the lines appended since it first opened the file, as far as it has got.
C10_EmitsAppendedLines ==
    (~disk.changed /\ tailer.h_start >= 0)
        => IsPrefix(tailer.h_emitted, AppendedLines)

\* C11: the first open puts the cursor at the end of the file, the cursor
\* never stands among the characters that were in a file at that moment,
\* and no read has ever started among them: nothing of what was in the file
\* when the tail loop first opened it is handed to _broadcast.
C11_NoReplay ==
    /\ ~tailer.h_replayed
    /\ tailer.fh = "open" => tailer.pos >= disk.old[tailer.ino]

\* the file had a line in it at the first open, a line was appended since,
\* and the tail loop has read on to the end and emitted it
C11_EmittedPastOld ==
    /\ tailer.fh = "open" /\ disk.old[tailer.ino] > 0
    /\ tailer.h_emitted # <<>>
    /\ tailer.pos = Len(disk.files[tailer.ino])
    /\ tailer.pos > disk.old[tailer.ino]

\* the file at the path is not the one start() found there: it has another
\* inode
Replaced == disk.path # 0 /\ disk.path # DiskNew(<<>>).path

\* the file at the path replaced another one and the tail loop, still
\* running, has no open handle on it
Stale == Replaced /\ server.running /\ ~Held(disk.path)

\* the tail loop makes an iteration
Iteration == [tailer' EXCEPT !.h_cut = tailer.h_cut] # tailer

\* how many iterations precede the one that looks at the file
Rank(t) == IF CheckDue(t) THEN 0 ELSE check_interval - t.check_counter

\* the iteration ends with an open handle on the file at the path, the
\* cursor at its end, no other file held and nothing emitted
Reopened ==
    /\ Held(disk.path)' /\ \A i \in Inodes \ {disk.path} : ~Held(i)'
    /\ tailer'.pos = Len(disk.files[disk.path])
    /\ tailer'.h_emitted = tailer.h_emitted

\* once the tail loop has let go of the replaced file it never reads from
\* it again
NeverBack ==
    (Replaced /\ \A i \in Inodes : Held(i) => i = disk.path)
        => \A i \in Inodes : Held(i)' => i = disk'.path

\* C12: after a replacement every iteration brings the one that looks at
\* the file nearer, that one comes as the 100th at the latest, it closes the
\* old handle and opens the new file at its end (or, when stat, open or read
\* fails, backs off and looks again in the next iteration), and the loop
\* never reads from the old file afterwards.
C12_ReopenedInTime ==
    /\ [](Rank(tailer) + 1 <= check_interval)
    /\ [][(Stale /\ Iteration) =>
            IF Rank(tailer) = 0
            THEN Reopened \/ (tailer'.pc = "sleep1" /\ Rank(tailer') = 0)
            ELSE Stale' => Rank(tailer') < Rank(tailer)]_vars
    /\ [][NeverBack]_vars

\* C13: an iteration that finds no file at the path leaves the loop without
\* a handle; every iteration ends in an await; and when a file is at the
\* path again the loop comes to hold it open, whatever its inode and size
\* (unless the server is stopped, the file goes again, or an exception has
\* ended the loop before).
C13_ReopensWhenBack ==
    /\ [][(Iteration /\ server.running /\ disk.path = 0 /\ CheckDue(tailer))
            => tailer'.fh = "none"]_vars
    /\ [](tailer.pc # "spin")
    /\ (disk.changed /\ disk.path # 0 /\ server.running)
           ~> \/ Held(disk.path)
              \/ ~server.running \/ disk.path = 0 \/ tailer.pc = "failed"

\* C14: the tail loop is over only when the server was stopped, and an
\* iteration that backs off after a failed call leaves the loop such that
\* the next iteration looks at the file and opens it again.
C14_OnlyStopEnds ==
    /\ tailer.pc \in {"done", "failed"} => ~server.running
    /\ tailer.pc = "sleep1" => CheckDue(tailer)

\* the iteration hands a line to _broadcast
Emits == Len(tailer'.h_emitted) > Len(tailer.h_emitted)

\* C36: the tail loop emits full lines only: what an iteration hands to
\* _broadcast is text it read up to and including a newline, so that text
\* appended without its newline is not emitted before the line is complete.
C36_OnlyFullLines ==
    [][Emits => disk.files[tailer'.ino][tailer'.pos] = NL]_vars

\* an iteration that looks at the file, finds it and in which no call fails
CheckPassed ==
    /\ Iteration /\ server.running /\ CheckDue(tailer) /\ disk.path # 0
    /\ tailer'.pc \in {"poll", "broadcast"}

\* C37: an iteration that looks at the file and finds it leaves the loop
\* with an open handle on the file at the path and the offset within that
\* file; when it sees another inode or a size below the one it knows, it
\* puts the cursor at the end of the file, so there is nothing to emit; and
\* it does the same when the file was truncated under its handle since it
\* last looked, even if the file has grown again meanwhile.
C37_HandleOnCurrentFile ==
    [][CheckPassed =>
         LET size == Len(disk.files[disk.path])
         IN  /\ Held(disk.path)'
             /\ tailer'.pos <= size
             /\ FileChanged(tailer, disk.path, size)
                   => tailer'.pos = size /\ ~Emits
             /\ tailer.h_cut => tailer'.pos = size /\ ~Emits]_vars
====
